---- MODULE Spec2Model ----
(***************************************************************************)
(* FreeSight front end: the scan orchestrator (App), the haptic channel    *)
(* (useHaptic), the parts of the audio channel (useAudio) and of the       *)
(* capture source (useCamera, Camera) the orchestrator drives.             *)
(* Back end: the demo gateway's POST /api/analyze and its analytics        *)
(* counters (index.demo.ts), a process of its own.                         *)
(*                                                                         *)
(* React semantics that the model keeps:                                   *)
(*  - a callback closes over the state of the render that created it; all  *)
(*    App callbacks are re-created on every render (the `haptic` object in *)
(*    their dependency lists is a fresh object each render), so a callback *)
(*    invoked from the UI or through onCommandRef sees the current state,  *)
(*    while a callback stored by setInterval, or the continuation of an    *)
(*    async handler, keeps the state of the render it was taken from;      *)
(*  - refs (cameraRef.current, audioRef.current, scanIntervalRef.current)  *)
(*    are read live;                                                       *)
(*  - one action is one event handler run to its next suspension point     *)
(*    (await, timer, device callback) followed by the re-render.           *)
(* Time is abstracted: a timer tick or a promise resolution may happen at  *)
(* any moment it is pending.                                               *)
(***************************************************************************)
EXTENDS Integers, Sequences, FiniteSets, Bags, TLC

(* ---- bounds ---- *)
MaxInFlight == 2      \* scans (capture + request) in flight at once
MaxTimers == 2        \* setInterval timers alive at once
MaxCamStarts == 1     \* getUserMedia requests outstanding at once
MaxClips == 3         \* playAudio calls in a run of the audio channel
MaxResults == 2       \* recognition results delivered in a run of the listener
MaxToggles == 1       \* toggleCamera calls waiting out their 100 ms pause at once
MaxRequests == 3      \* POST /api/analyze requests the demo gateway receives in a run

(* ---- value sets ---- *)
PanicLevels == {"none", "low", "medium", "high", "undefined"}
ScanModes == {"manual", "continuous"}
InputModes == {"camera", "photo"}
VoiceCommandNames == {"scan", "stop", "start", "help", "mute", "unmute", "repeat"}
DeviceOutcomes == {"ok", "refused", "throws"}

ScanFailedText == "Scan failed. Please try again."
PhotoFailedText == "Photo analysis failed. Please try again."
HelpText == "Available commands"

\* the backend's response body; panic_level, audio_base64 and description may be absent
Results ==
  [panic_level : PanicLevels, panic : BOOLEAN,
   audio_base64 : {"", "clip"}, description : {"", "desc"}, detections : {0, 1}]

\* the responses the backend gives in the orchestration specification
SampleResults ==
  {[panic_level |-> "none", panic |-> FALSE, audio_base64 |-> "",
    description |-> "desc", detections |-> 0],
   [panic_level |-> "medium", panic |-> FALSE, audio_base64 |-> "",
    description |-> "", detections |-> 1],
   [panic_level |-> "high", panic |-> TRUE, audio_base64 |-> "clip",
    description |-> "desc", detections |-> 1]}

VARIABLES
  \* App state
  mode, inputMode, isScanning, isAnalyzing, detections, lastDescription,
  panicLevel, isPanic, error, uploadedImage,
  scanIntervalRef,      \* <<closure>> of the timer the ref holds, <<>> for null
  timers,               \* live setInterval timers: the bag of the closures they hold
  scans,                \* bag of the handleScan / handleAnalyzePhoto invocations
                        \* suspended at an await
  autoStartPending,     \* the 500 ms mount timer has not fired yet
  \* useHaptic state
  hapticIsSupported, hapticIsEnabled, lastPattern, savedPreference,
  \* useAudio state (speech path)
  audioIsMuted, hasSpeechSynthesis,
  \* useAudio state (clip path)
  queue,                \* the queue state: clips waiting, oldest first
  playTimers,           \* pending setTimeout(() => playAudioData(next), 100), in the
                        \* order set: the clip and the isMuted of the closure
  audios,               \* the Audio elements that have been played and not paused,
                        \* ended or failed: clip, phase, isMuted of the closure
  audioElRef,           \* audioRef.current: <<clip>> of the element it holds, <<>> for null
  isPlayingRef, audioIsPlaying, volume,
  mutedLog,             \* isMuted at each playAudio call of that specification
  clipLog,              \* the priority flag of each playAudio call of the audio
                        \* channel's own specification; a clip is named by its index
  \* useVoiceControl state
  voiceIsSupported, voiceIsEnabled, isListening, transcript, lastCommand, voiceError,
  recognitionRef,       \* <<closure>> of the recognition object's handlers, <<>> for null
  session,              \* the engine's session: "idle", "starting" (start() called),
                        \* "listening" (onstart fired), "stopping" (onend is due)
  restartTimers,        \* pending setTimeout(restart, 100) of onend
  heard,                \* the results of the last event given to onresult
  resultCount,          \* the number of events given to onresult so far
  \* useCamera state
  cameraIsActive, cameraHasPermission, cameraError, cameraStarts,
  facingMode,           \* the facingMode state
  stream,               \* the stream state: <<[facing]>> with the facing mode the
                        \* stream was requested with, <<>> for null
  videoSrc,             \* srcObject of the mounted <video>, like stream
  requestedFacing,      \* the facing modes of the pending getUserMedia calls
  cameraToggles,        \* bag of the toggleCamera calls suspended at the 100 ms
                        \* pause: the facingMode of their render, and the facing
                        \* mode of the stream they stopped
  \* demo gateway (backend/src/index.demo.ts): the analytics counters
  totalScans, successfulScans, failedScans, panicEvents,
  lastScanTime,         \* "null", or "set" once a scan has succeeded
  requests,             \* bag of the /api/analyze handlers suspended at an await:
                        \* "fetch", "text" (response.text()) or "json" (response.json())
  \* observation of the last handler run: its name and the calls it made
  op, out

appVars == <<mode, inputMode, isScanning, isAnalyzing, detections, lastDescription,
             panicLevel, isPanic, error, uploadedImage, scanIntervalRef, timers,
             scans, autoStartPending>>
hapticVars == <<hapticIsSupported, hapticIsEnabled, lastPattern, savedPreference>>
audioVars == <<audioIsMuted, hasSpeechSynthesis>>
cameraVars == <<cameraIsActive, cameraHasPermission, cameraError, cameraStarts,
                facingMode, stream, videoSrc, requestedFacing, cameraToggles>>
playerVars == <<queue, playTimers, audios, audioElRef, isPlayingRef, audioIsPlaying,
                volume, clipLog, mutedLog>>
voiceVars == <<voiceIsSupported, voiceIsEnabled, isListening, transcript, lastCommand,
               voiceError, recognitionRef, session, restartTimers, heard, resultCount>>
gatewayVars == <<totalScans, successfulScans, failedScans, panicEvents, lastScanTime,
                 requests>>
vars == <<appVars, hapticVars, audioVars, cameraVars, playerVars, voiceVars, gatewayVars,
          op, out>>

(* ======================= useHaptic ======================= *)

HAPTIC_PATTERNS ==
  [info    |-> <<50>>,
   low     |-> <<100, 50, 100>>,
   medium  |-> <<150, 100, 150, 100, 150>>,
   high    |-> <<300, 100, 300, 100, 300, 200, 100, 50, 100, 50, 100>>,
   panic   |-> <<200, 100, 200, 100, 200, 100, 200, 100, 200>>,
   success |-> <<30>>,
   tap     |-> <<10>>]

PatternNames == DOMAIN HAPTIC_PATTERNS

\* typeof pattern === 'string' ? HAPTIC_PATTERNS[pattern] || HAPTIC_PATTERNS.info : pattern
PatternArray(pattern) ==
  IF pattern \in PatternNames THEN HAPTIC_PATTERNS[pattern] ELSE HAPTIC_PATTERNS["info"]

NoVibration ==
  [ret |-> FALSE, calls |-> <<>>, setLast |-> FALSE, pattern |-> "none", thrown |-> FALSE]

\* vibrate(pattern) without its navigator.vibrate(0)
VibrateWithoutCancel(pattern, supported, enabled, outcome) ==
  IF ~supported \/ ~enabled THEN NoVibration
  ELSE IF outcome = "throws"
       THEN [ret |-> FALSE, calls |-> << <<"navigator.vibrate", "throws">> >>,
             setLast |-> FALSE, pattern |-> pattern, thrown |-> FALSE]
       ELSE [ret |-> outcome = "ok",
             calls |-> << <<"navigator.vibrate", pattern>> >>,
             setLast |-> outcome = "ok", pattern |-> pattern,
             thrown |-> FALSE]

\* vibrate(pattern) without its try / catch
VibrateUncaught(pattern, supported, enabled, outcome) ==
  IF ~supported \/ ~enabled THEN NoVibration
  ELSE IF outcome = "throws"
       THEN [ret |-> FALSE, calls |-> << <<"navigator.vibrate", "throws">> >>,
             setLast |-> FALSE, pattern |-> pattern, thrown |-> TRUE]
       ELSE [ret |-> outcome = "ok",
             calls |-> << <<"navigator.vibrate", "cancel">>,
                          <<"navigator.vibrate", pattern>> >>,
             setLast |-> outcome = "ok", pattern |-> pattern,
             thrown |-> FALSE]

\* vibrate(pattern) of the render whose flags are (supported, enabled);
\* outcome is what navigator.vibrate does: returns true, returns false, throws.
\* calls: the device calls made; setLast: setLastPattern(pattern) was called;
\* thrown: an exception left vibrate (never: the catch block returns false).
Vibrate(pattern, supported, enabled, outcome) ==
  IF ~supported \/ ~enabled THEN NoVibration
  ELSE IF outcome = "throws"
       THEN [ret |-> FALSE, calls |-> << <<"navigator.vibrate", "throws">> >>,
             setLast |-> FALSE, pattern |-> pattern, thrown |-> FALSE]
       ELSE [ret |-> outcome = "ok",
             calls |-> << <<"navigator.vibrate", "cancel">>,
                          <<"navigator.vibrate", pattern>> >>,
             setLast |-> outcome = "ok", pattern |-> pattern,
             thrown |-> FALSE]

\* the pattern vibrateForDanger selects, "none" when it fires nothing
DangerPatternPanicIgnored(level, panic) ==
  CASE level = "high" -> "high"
    [] level = "medium" -> "medium"
    [] level = "low" -> "low"
    [] OTHER -> "none"

DangerPattern(level, panic) ==
  IF panic THEN "panic"
  ELSE CASE level = "high" -> "high"
         [] level = "medium" -> "medium"
         [] level = "low" -> "low"
         [] OTHER -> "none"

VibrateForDanger(level, panic, supported, enabled, outcome) ==
  IF DangerPattern(level, panic) = "none" THEN NoVibration
  ELSE Vibrate(DangerPattern(level, panic), supported, enabled, outcome)

\* the value of lastPattern after the vibrate calls vs (in call order) of one handler
RECURSIVE LastPatternAfter(_, _)
LastPatternAfter(last, vs) ==
  IF vs = <<>> THEN last
  ELSE LastPatternAfter(IF Head(vs).setLast THEN Head(vs).pattern ELSE last, Tail(vs))

(* ======================= useAudio (speech path) ======================= *)

\* speakText(text, priority): the speechSynthesis calls it makes
SpeakText(text, priority, muted, synth) ==
  IF ~synth \/ muted THEN <<>>
  ELSE (IF priority THEN << <<"speechSynthesis.cancel">> >> ELSE <<>>)
       \o << <<"speechSynthesis.speak", text>> >>

Pri(p) == IF p THEN "priority" ELSE "normal"

(* ======================= useAudio (clip path) ======================= *)

\* the volume in tenths, the step of the slider; 1.0 is FullVolume
FullVolume == 10

\* Math.max(0, Math.min(1, newVolume))
ClampVolumeUpperOnly(newVolume) ==
  IF newVolume < FullVolume THEN newVolume ELSE FullVolume

ClampVolume(newVolume) ==
  LET least == IF newVolume < FullVolume THEN newVolume ELSE FullVolume
  IN IF least > 0 THEN least ELSE 0

\* the clip a scan result carries
ResultClip == 0

\* the Audio elements audioRef.current.pause() stops
RefElements(els, ref) == {e \in els : ref = <<e.clip>>}

\* new Audio(audioData) of a playAudioData whose closure holds isMuted = muted
\* and volume = vol, after audio.volume = volume and audio.play()
NewAudio(clip, muted, vol) ==
  [clip |-> clip, phase |-> "starting", muted |-> muted, closureVolume |-> vol,
   volume |-> vol]

\* one run of processQueue of a render whose isMuted was muted and whose
\* volume was vol: the setQueue updater takes the head and sets the 100 ms timer
ProcessQueue(q, ts, playingRef, muted, vol) ==
  IF Len(q) = 0 \/ playingRef
  THEN [queue |-> q, playTimers |-> ts]
  ELSE [queue |-> Tail(q),
        playTimers |-> Append(ts, [clip |-> Head(q), muted |-> muted, volume |-> vol])]

\* the effect on [queue, processQueue] of the current render: it runs again
\* after every change of the queue, so it takes clip after clip while
\* isPlayingRef.current stays false
RECURSIVE QueueEffect(_, _, _, _, _)
QueueEffect(q, ts, playingRef, muted, vol) ==
  IF Len(q) = 0 \/ playingRef
  THEN [queue |-> q, playTimers |-> ts]
  ELSE LET once == ProcessQueue(q, ts, playingRef, muted, vol)
       IN QueueEffect(once.queue, once.playTimers, playingRef, muted, vol)

\* playBase64Audio(clip, priority); its playAudioData is the one of the first
\* render (dependency list []), whose isMuted is false and whose volume is 1.0.
\* Sets queue, playTimers, audios, audioElRef.
PlayBase64Audio(clip, priority) ==
  IF priority
  THEN /\ audios' = (audios \ RefElements(audios, audioElRef))
                    \cup {NewAudio(clip, FALSE, FullVolume)}
       /\ audioElRef' = <<clip>>
       /\ queue' = <<>>
       /\ UNCHANGED playTimers
  ELSE LET after == QueueEffect(Append(queue, clip), playTimers, isPlayingRef,
                                audioIsMuted, volume)
       IN /\ queue' = after.queue
          /\ playTimers' = after.playTimers
          /\ UNCHANGED <<audios, audioElRef>>

\* toggleMute(): setIsMuted, then the queue effect of the new render
\* (processQueue is a new function when isMuted changes).
\* Sets audioIsMuted, queue, playTimers.
ToggleMuteCall ==
  LET after == QueueEffect(queue, playTimers, isPlayingRef, ~audioIsMuted, volume)
  IN /\ audioIsMuted' = ~audioIsMuted
     /\ queue' = after.queue
     /\ playTimers' = after.playTimers


(* ======================= App: helpers ======================= *)

\* what navigator.vibrate may do in a vibrate() call of a render whose
\* isEnabled flag is enabled; there is no device call, hence one outcome, when
\* vibrate() returns early
Outcomes(enabled) == IF hapticIsSupported /\ enabled THEN DeviceOutcomes ELSE {"ok"}

\* cameraRef.current?.isActive: the Camera component is mounted only in camera input mode
CameraRefActive == inputMode = "camera" /\ cameraIsActive

\* App's error slot if Camera's error effect did not call onError
PinnedNever(e, inMode, camErr) == e

\* Camera's error effect runs after every render (its onError prop is a new
\* function each render) and calls App's setError(error) while the camera
\* hook holds an error
Pinned(e, inMode, camErr) ==
  IF inMode = "camera" /\ camErr # "none" THEN camErr ELSE e

NewScanAnalyzing(kind, hEn) ==
  [phase |-> "analyze", kind |-> kind, hEn |-> hEn]

NewScan(kind, hEn) ==
  [phase |-> IF kind = "camera" THEN "capture" ELSE "analyze",
   kind |-> kind, hEn |-> hEn]

One(x) == SetToBag({x})

\* clearInterval(scanIntervalRef.current)
ClearInterval(ts, ref) == IF ref = <<>> THEN ts ELSE ts (-) One(ref[1])

Calls(vs) == IF Len(vs) = 0 THEN <<>>
             ELSE IF Len(vs) = 1 THEN vs[1].calls
             ELSE IF Len(vs) = 2 THEN vs[1].calls \o vs[2].calls
             ELSE vs[1].calls \o vs[2].calls \o vs[3].calls

(* ======================= App: handlers ======================= *)

\* handleScan of a render whose isAnalyzing was capAn and whose haptic.isEnabled
\* was hEn; preOut / preVib are the calls the enclosing handler made before it.
\* Sets isAnalyzing, error, scans, lastPattern, out.
HandleScanUnguarded(capAn, hEn, o, preOut, preVib) ==
  IF CameraRefActive
  THEN LET tap == Vibrate("tap", hapticIsSupported, hEn, o) IN
       /\ BagCardinality(scans) < MaxInFlight
       /\ isAnalyzing' = TRUE
       /\ error' = Pinned("none", inputMode, cameraError)
       /\ scans' = scans (+) One(NewScan("camera", hEn))
       /\ lastPattern' = LastPatternAfter(lastPattern, preVib \o <<tap>>)
       /\ out' = preOut \o tap.calls \o << <<"camera.capture">> >>
  ELSE /\ UNCHANGED <<isAnalyzing, scans>>
       /\ error' = Pinned(error, inputMode, cameraError)
       /\ lastPattern' = LastPatternAfter(lastPattern, preVib)
       /\ out' = preOut

\* handleScan without the cameraRef.current?.isActive test of its guard
HandleScanWithoutCamera(capAn, hEn, o, preOut, preVib) ==
  IF ~capAn
  THEN LET tap == Vibrate("tap", hapticIsSupported, hEn, o) IN
       /\ BagCardinality(scans) < MaxInFlight
       /\ isAnalyzing' = TRUE
       /\ error' = Pinned("none", inputMode, cameraError)
       /\ scans' = scans (+) One(NewScan("camera", hEn))
       /\ lastPattern' = LastPatternAfter(lastPattern, preVib \o <<tap>>)
       /\ out' = preOut \o tap.calls \o << <<"camera.capture">> >>
  ELSE /\ UNCHANGED <<isAnalyzing, scans>>
       /\ error' = Pinned(error, inputMode, cameraError)
       /\ lastPattern' = LastPatternAfter(lastPattern, preVib)
       /\ out' = preOut

HandleScan(capAn, hEn, o, preOut, preVib) ==
  IF CameraRefActive /\ ~capAn
  THEN LET tap == Vibrate("tap", hapticIsSupported, hEn, o) IN
       /\ BagCardinality(scans) < MaxInFlight
       /\ isAnalyzing' = TRUE
       /\ error' = Pinned("none", inputMode, cameraError)
       /\ scans' = scans (+) One(NewScan("camera", hEn))
       /\ lastPattern' = LastPatternAfter(lastPattern, preVib \o <<tap>>)
       /\ out' = preOut \o tap.calls \o << <<"camera.capture">> >>
  ELSE /\ UNCHANGED <<isAnalyzing, scans>>
       /\ error' = Pinned(error, inputMode, cameraError)
       /\ lastPattern' = LastPatternAfter(lastPattern, preVib)
       /\ out' = preOut

\* startContinuousScanning of the current render.
\* Sets isScanning, timers, scanIntervalRef and what HandleScan sets.
StartContinuousScanning(o, preOut, preVib) ==
  /\ BagCardinality(timers) < MaxTimers
  /\ isScanning' = TRUE
  /\ HandleScan(isAnalyzing, hapticIsEnabled, o, preOut, preVib)
  /\ timers' = timers (+) One([isAnalyzing |-> isAnalyzing, hEn |-> hapticIsEnabled])
  /\ scanIntervalRef' = << [isAnalyzing |-> isAnalyzing, hEn |-> hapticIsEnabled] >>

\* handleStop of the current render.
\* Sets isScanning, timers, scanIntervalRef, scans, lastPattern, out.
HandleStopAborting(o, preOut, preVib, postVib) ==
  LET tap == Vibrate("tap", hapticIsSupported, hapticIsEnabled, o) IN
  /\ isScanning' = FALSE
  /\ timers' = ClearInterval(timers, scanIntervalRef)
  /\ scanIntervalRef' = <<>>
  /\ scans' = EmptyBag
  /\ lastPattern' = LastPatternAfter(lastPattern, preVib \o <<tap>> \o postVib)
  /\ out' = preOut
            \o (IF scanIntervalRef = <<>> THEN <<>> ELSE << <<"clearInterval">> >>)
            \o tap.calls \o Calls(postVib)

HandleStop(o, preOut, preVib, postVib) ==
  LET tap == Vibrate("tap", hapticIsSupported, hapticIsEnabled, o) IN
  /\ isScanning' = FALSE
  /\ timers' = ClearInterval(timers, scanIntervalRef)
  /\ scanIntervalRef' = <<>>
  /\ scans' = scans
  /\ lastPattern' = LastPatternAfter(lastPattern, preVib \o <<tap>> \o postVib)
  /\ out' = preOut
            \o (IF scanIntervalRef = <<>> THEN <<>> ELSE << <<"clearInterval">> >>)
            \o tap.calls \o Calls(postVib)

\* the interval callback of timer t: if (!isAnalyzing) handleScan(), both taken
\* from the render in which startContinuousScanning ran
TimerTick ==
  \E t \in BagToSet(timers) : \E o \in Outcomes(t.hEn) :
    /\ op' = "timerTick"
    /\ IF ~t.isAnalyzing
       THEN HandleScan(t.isAnalyzing, t.hEn, o, <<>>, <<>>)
       ELSE /\ UNCHANGED <<isAnalyzing, scans, lastPattern>>
            /\ error' = Pinned(error, inputMode, cameraError)
            /\ out' = <<>>
    /\ UNCHANGED <<mode, inputMode, isScanning, detections, lastDescription, panicLevel,
                   isPanic, uploadedImage, scanIntervalRef, timers, autoStartPending,
                   hapticIsSupported, hapticIsEnabled, savedPreference,
                   audioVars, cameraVars, playerVars, voiceVars, gatewayVars>>

\* Controls' main button: disabled while isAnalyzing; onClick is onStop while
\* continuous scanning is on, else handleScanClick
ScanButton ==
  \E o \in Outcomes(hapticIsEnabled) :
    /\ inputMode = "camera"
    /\ IF isAnalyzing
       THEN /\ op' = "scanButtonDisabled"
            /\ out' = <<>>
            /\ UNCHANGED <<isAnalyzing, scans, lastPattern, error, isScanning, timers,
                           scanIntervalRef>>
       ELSE IF mode = "continuous" /\ isScanning
       THEN /\ op' = "handleStop"
            /\ HandleStop(o, <<>>, <<>>, <<>>)
            /\ UNCHANGED <<isAnalyzing, error>>
       ELSE IF mode = "continuous"
       THEN /\ op' = "startContinuousScanning"
            /\ StartContinuousScanning(o, <<>>, <<>>)
       ELSE /\ op' = "handleScan"
            /\ HandleScan(isAnalyzing, hapticIsEnabled, o, <<>>, <<>>)
            /\ UNCHANGED <<isScanning, timers, scanIntervalRef>>
    /\ UNCHANGED <<mode, inputMode, detections, lastDescription, panicLevel, isPanic,
                   uploadedImage, autoStartPending,
                   hapticIsSupported, hapticIsEnabled, savedPreference,
                   audioVars, cameraVars, playerVars, voiceVars, gatewayVars>>

\* handleModeChange(newMode): handleStop() if isScanning, setMode, haptic.tap()
HandleModeChange ==
  \E newMode \in ScanModes, o1 \in Outcomes(hapticIsEnabled), o2 \in Outcomes(hapticIsEnabled) :
    LET tap2 == Vibrate("tap", hapticIsSupported, hapticIsEnabled, o2) IN
    /\ inputMode = "camera"
    /\ op' = "handleModeChange"
    /\ mode' = newMode
    /\ IF isScanning
       THEN HandleStop(o1, <<>>, <<>>, <<tap2>>)
       ELSE /\ UNCHANGED <<isScanning, timers, scanIntervalRef>>
            /\ scans' = scans
            /\ lastPattern' = LastPatternAfter(lastPattern, <<tap2>>)
            /\ out' = tap2.calls
    /\ error' = Pinned(error, inputMode, cameraError)
    /\ UNCHANGED <<inputMode, isAnalyzing, detections, lastDescription, panicLevel, isPanic,
                   uploadedImage, autoStartPending,
                   hapticIsSupported, hapticIsEnabled, savedPreference,
                   audioVars, cameraVars, playerVars, voiceVars, gatewayVars>>


VoiceStartsContinuousOrScan(command) ==
  command \in {"start", "scan"} /\ mode = "continuous"

\* handleVoiceCommand: the command calls startContinuousScanning()
VoiceStartsContinuous(command) ==
  command = "start" /\ mode = "continuous"

\* handleVoiceCommand(command) of the current render (onCommandRef is kept current)
HandleVoiceCommandOf(command) ==
  \E o1 \in Outcomes(hapticIsEnabled), o2 \in Outcomes(hapticIsEnabled) :
    LET tap1 == Vibrate("tap", hapticIsSupported, hapticIsEnabled, o1)
        toggles == command = "mute" \/ (command = "unmute" /\ audioIsMuted)
        speech == CASE command = "repeat" /\ lastDescription # "" ->
                         << <<"audio.speak", lastDescription, "priority">> >>
                         \o SpeakText(lastDescription, TRUE, audioIsMuted, hasSpeechSynthesis)
                    [] command = "help" ->
                         << <<"audio.speak", HelpText, "priority">> >>
                         \o SpeakText(HelpText, TRUE, audioIsMuted, hasSpeechSynthesis)
                    [] OTHER -> <<>>
    IN
    /\ op' = "voice:" \o command
    /\ CASE command \in {"scan", "start"} /\ ~VoiceStartsContinuous(command) ->
              /\ HandleScan(isAnalyzing, hapticIsEnabled, o2, tap1.calls, <<tap1>>)
              /\ UNCHANGED <<isScanning, timers, scanIntervalRef>>
         [] VoiceStartsContinuous(command) ->
              StartContinuousScanning(o2, tap1.calls, <<tap1>>)
         [] command = "stop" ->
              /\  HandleStop(o2, tap1.calls, <<tap1>>, <<>>)
              /\ UNCHANGED <<isAnalyzing, error>>
         [] OTHER ->
              /\ lastPattern' = LastPatternAfter(lastPattern, <<tap1>>)
              /\ out' = tap1.calls \o speech
              /\ UNCHANGED <<isAnalyzing, error, scans, isScanning, timers, scanIntervalRef>>
    /\ IF toggles THEN ToggleMuteCall ELSE UNCHANGED <<audioIsMuted, queue, playTimers>>
    /\ UNCHANGED <<mode, inputMode, detections, lastDescription, panicLevel, isPanic,
                   uploadedImage, autoStartPending,
                   hapticIsSupported, hapticIsEnabled, savedPreference,
                   hasSpeechSynthesis, cameraVars, audios, audioElRef,
                   isPlayingRef, audioIsPlaying, volume, clipLog, mutedLog>>

\* a command reaching App while the listener's own state stays as it is
HandleVoiceCommand ==
  \E command \in VoiceCommandNames :
    /\ HandleVoiceCommandOf(command)
    /\ UNCHANGED <<voiceVars, gatewayVars>>

\* useHaptic toggle(), from the header button shown when haptic.isSupported
HapticToggle ==
  /\ hapticIsSupported
  /\ op' = "haptic.toggle"
  /\ out' = <<>>
  /\ hapticIsEnabled' = ~hapticIsEnabled
  /\ savedPreference' = IF ~hapticIsEnabled THEN "true" ELSE "false"
  /\ UNCHANGED <<appVars, hapticIsSupported, lastPattern, audioVars, cameraVars, playerVars, voiceVars, gatewayVars>>

\* useAudio toggleMute(), from the mute button
ToggleMute ==
  /\ op' = "audio.toggleMute"
  /\ out' = <<>>
  /\ ToggleMuteCall
  /\ UNCHANGED <<appVars, hapticVars, hasSpeechSynthesis, cameraVars, audios, audioElRef,
                 isPlayingRef, audioIsPlaying, volume, clipLog, mutedLog, voiceVars, gatewayVars>>

(* ---- photo input mode ---- *)

\* handleInputModeChange(newInputMode); the Camera component is unmounted in
\* photo mode and mounted afresh (inactive, not started) on return
HandleInputModeChange ==
  \E newInputMode \in InputModes, o1 \in Outcomes(hapticIsEnabled), o2 \in Outcomes(hapticIsEnabled) :
    LET tap2 == Vibrate("tap", hapticIsSupported, hapticIsEnabled, o2) IN
    /\ op' = "handleInputModeChange"
    /\ inputMode' = newInputMode
    /\ IF isScanning
       THEN HandleStop(o1, <<>>, <<>>, <<tap2>>)
       ELSE /\ UNCHANGED <<isScanning, timers, scanIntervalRef>>
            /\ scans' = scans
            /\ lastPattern' = LastPatternAfter(lastPattern, <<tap2>>)
            /\ out' = tap2.calls
    /\ detections' = 0
    /\ lastDescription' = ""
    /\ panicLevel' = "none"
    /\ isPanic' = FALSE
    /\ IF newInputMode # inputMode
       THEN /\ cameraIsActive' = FALSE
            /\ cameraHasPermission' = "null"
            /\ cameraError' = "none"
            /\ cameraStarts' = 0
            /\ facingMode' = "environment"
            /\ stream' = <<>>
            /\ videoSrc' = <<>>
            /\ requestedFacing' = <<>>
            /\ cameraToggles' = EmptyBag
            /\ error' = "none"
       ELSE /\ UNCHANGED cameraVars
            /\ error' = Pinned("none", inputMode, cameraError)
    /\ UNCHANGED <<mode, isAnalyzing, uploadedImage, autoStartPending,
                   hapticIsSupported, hapticIsEnabled, savedPreference, audioVars, playerVars, voiceVars, gatewayVars>>

\* handlePhotoSelect(file): a file chosen (TRUE) or the preview cleared (FALSE;
\* the clear button is hidden while isAnalyzing)
HandlePhotoSelect ==
  \E file \in BOOLEAN :
    /\ inputMode = "photo"
    /\ file \/ (uploadedImage /\ ~isAnalyzing)
    /\ op' = "handlePhotoSelect"
    /\ out' = <<>>
    /\ uploadedImage' = file
    /\ detections' = 0
    /\ lastDescription' = ""
    /\ panicLevel' = "none"
    /\ isPanic' = FALSE
    /\ error' = "none"
    /\ UNCHANGED <<mode, inputMode, isScanning, isAnalyzing, scanIntervalRef, timers, scans,
                   autoStartPending, hapticVars, audioVars, cameraVars, playerVars, voiceVars, gatewayVars>>

\* handleAnalyzePhoto, from the photo-mode button (disabled without an image
\* or while isAnalyzing)
HandleAnalyzePhoto ==
  \E o \in Outcomes(hapticIsEnabled) :
    LET tap == Vibrate("tap", hapticIsSupported, hapticIsEnabled, o) IN
    /\ inputMode = "photo"
    /\ uploadedImage /\ ~isAnalyzing
    /\ BagCardinality(scans) < MaxInFlight
    /\ op' = "handleAnalyzePhoto"
    /\ isAnalyzing' = TRUE
    /\ error' = "none"
    /\ scans' = scans (+) One(NewScan("photo", hapticIsEnabled))
    /\ lastPattern' = LastPatternAfter(lastPattern, <<tap>>)
    /\ out' = tap.calls \o << <<"analyzeImage">> >>
    /\ UNCHANGED <<mode, inputMode, isScanning, detections, lastDescription, panicLevel,
                   isPanic, uploadedImage, scanIntervalRef, timers, autoStartPending,
                   hapticIsSupported, hapticIsEnabled, savedPreference,
                   audioVars, cameraVars, playerVars, voiceVars, gatewayVars>>


(* ---- continuations of handleScan / handleAnalyzePhoto ---- *)

FailedText(scan) == IF scan.kind = "camera" THEN ScanFailedText ELSE PhotoFailedText

\* what the awaited promise of a scan settled with
Settled(scan, how) == <<"settled", scan.kind, how>>

Response(result) ==
  <<"response", result.panic_level, Pri(result.panic), result.audio_base64,
    result.description>>

Ret(v) == IF v.ret THEN "returns true" ELSE "returns false"

\* catch + finally of scan i: setError(err.message), haptic.vibrate('low') of the
\* scan's render, audioRef.current.speak(text, true), setIsAnalyzing(false)
ScanFailsStuck(scan, message, o) ==
  LET v == Vibrate("low", hapticIsSupported, scan.hEn, o) IN
  /\ error' = Pinned(message, inputMode, cameraError)
  /\ lastPattern' = LastPatternAfter(lastPattern, <<v>>)
  /\ out' = << Settled(scan, message), <<"haptic.vibrate", "low", Ret(v)>> >> \o v.calls
            \o << <<"audio.speak", FailedText(scan), "priority">> >>
            \o SpeakText(FailedText(scan), TRUE, audioIsMuted, hasSpeechSynthesis)
  /\ isAnalyzing' = isAnalyzing
  /\ scans' = scans (-) One(scan)
  /\ UNCHANGED <<detections, lastDescription, panicLevel, isPanic>>

ScanFailsSilently(scan, message, o) ==
  LET v == Vibrate("low", hapticIsSupported, scan.hEn, o)
  IN
  /\ error' = Pinned(message, inputMode, cameraError)
  /\ lastPattern' = LastPatternAfter(lastPattern, <<v>>)
  /\ out' = << Settled(scan, message), <<"haptic.vibrate", "low", Ret(v)>> >> \o v.calls
  /\ isAnalyzing' = FALSE
  /\ scans' = scans (-) One(scan)
  /\ UNCHANGED <<detections, lastDescription, panicLevel, isPanic>>

\* the catch block if it also reset the last description
ScanFailsForgetting(scan, message, o) ==
  LET v == Vibrate("low", hapticIsSupported, scan.hEn, o)
  IN
  /\ error' = Pinned(message, inputMode, cameraError)
  /\ lastPattern' = LastPatternAfter(lastPattern, <<v>>)
  /\ out' = << Settled(scan, message), <<"haptic.vibrate", "low", Ret(v)>> >> \o v.calls
            \o << <<"audio.speak", FailedText(scan), "priority">> >>
            \o SpeakText(FailedText(scan), TRUE, audioIsMuted, hasSpeechSynthesis)
  /\ isAnalyzing' = FALSE
  /\ scans' = scans (-) One(scan)
  /\ lastDescription' = ""
  /\ UNCHANGED <<detections, panicLevel, isPanic>>

ScanFails(scan, message, o) ==
  LET v == Vibrate("low", hapticIsSupported, scan.hEn, o)
  IN
  /\ error' = Pinned(message, inputMode, cameraError)
  /\ lastPattern' = LastPatternAfter(lastPattern, <<v>>)
  /\ out' = << Settled(scan, message), <<"haptic.vibrate", "low", Ret(v)>> >> \o v.calls
            \o << <<"audio.speak", FailedText(scan), "priority">> >>
            \o SpeakText(FailedText(scan), TRUE, audioIsMuted, hasSpeechSynthesis)
  /\ isAnalyzing' = FALSE
  /\ scans' = scans (-) One(scan)
  /\ UNCHANGED <<detections, lastDescription, panicLevel, isPanic>>

\* the audio call of the success path
ResultAudioNeverPriority(result) ==
  IF result.audio_base64 # ""
  THEN << <<"audio.playAudio", result.audio_base64, "normal">> >>
  ELSE IF result.description # ""
  THEN << <<"audio.speak", result.description, "normal">> >>
       \o SpeakText(result.description, FALSE, audioIsMuted, hasSpeechSynthesis)
  ELSE <<>>

ResultAudio(result) ==
  IF result.audio_base64 # ""
  THEN << <<"audio.playAudio", result.audio_base64, Pri(result.panic)>> >>
  ELSE IF result.description # ""
  THEN << <<"audio.speak", result.description, Pri(result.panic)>> >>
       \o SpeakText(result.description, result.panic, audioIsMuted, hasSpeechSynthesis)
  ELSE <<>>

\* the awaited capture() of scan i settles: analyzeImage(imageBlob) is called,
\* or the catch block runs
CaptureResolves ==
  \E scan \in BagToSet(scans), ok \in BOOLEAN : \E o \in Outcomes(scan.hEn) :
    /\ scan.phase = "capture"
    /\ op' = "captureResolves"
    /\ IF ok
       THEN /\ scans' = (scans (-) One(scan)) (+) One([scan EXCEPT !.phase = "analyze"])
            /\ out' = << <<"analyzeImage">> >>
            /\ UNCHANGED <<isAnalyzing, error, lastPattern, detections, lastDescription,
                           panicLevel, isPanic>>
       ELSE ScanFails(scan, "CaptureError", o)
    /\ UNCHANGED <<mode, inputMode, isScanning, uploadedImage, scanIntervalRef, timers,
                   autoStartPending, hapticIsSupported, hapticIsEnabled, savedPreference,
                   audioVars, cameraVars, playerVars, voiceVars, gatewayVars>>

\* the awaited analyzeImage() of scan i rejects
AnalysisFails ==
  \E scan \in BagToSet(scans) : \E o \in Outcomes(scan.hEn) :
    /\ scan.phase = "analyze"
    /\ op' = "analysisFails"
    /\ ScanFails(scan, "AnalysisError", o)
    /\ UNCHANGED <<mode, inputMode, isScanning, uploadedImage, scanIntervalRef, timers,
                   autoStartPending, hapticIsSupported, hapticIsEnabled, savedPreference,
                   audioVars, cameraVars, playerVars, voiceVars, gatewayVars>>

\* the awaited analyzeImage() of scan i resolves with result: the rest of the
\* try block and the finally block
AnalysisSucceedsWith(results) ==
  \E scan \in BagToSet(scans), result \in results : \E o \in Outcomes(scan.hEn) :
    LET v == VibrateForDanger(result.panic_level, result.panic,
                              hapticIsSupported, scan.hEn, o)
    IN
    /\ scan.phase = "analyze"
    /\ op' = "analysisSucceeds"
    /\ detections' = result.detections
    /\ lastDescription' = result.description
    /\ panicLevel' = IF result.panic_level = "undefined" THEN "none" ELSE result.panic_level
    /\ isPanic' = result.panic
    /\ lastPattern' = LastPatternAfter(lastPattern, <<v>>)
    /\ IF v.thrown
       THEN \* an exception of haptic.vibrateForDanger would reach the catch block
            /\ error' = Pinned("VibrationError", inputMode, cameraError)
            /\ out' = << Response(result) >> \o v.calls
                      \o << <<"haptic.vibrate", "low", "returns false">>,
                            <<"audio.speak", FailedText(scan), "priority">> >>
                      \o SpeakText(FailedText(scan), TRUE, audioIsMuted, hasSpeechSynthesis)
            /\ UNCHANGED <<queue, playTimers, audios, audioElRef>>
       ELSE /\ error' = error
            /\ out' = << Response(result),
                         <<"haptic.vibrateForDanger", result.panic_level,
                           Pri(result.panic), Ret(v)>> >>
                      \o v.calls \o ResultAudio(result)
            /\ IF result.audio_base64 # ""
               THEN PlayBase64Audio(ResultClip, result.panic)
               ELSE UNCHANGED <<queue, playTimers, audios, audioElRef>>
    /\ isAnalyzing' = FALSE
    /\ scans' = scans (-) One(scan)
    /\ UNCHANGED <<mode, inputMode, isScanning, uploadedImage, scanIntervalRef, timers,
                   autoStartPending, hapticIsSupported, hapticIsEnabled, savedPreference,
                   audioVars, cameraVars, isPlayingRef, audioIsPlaying, volume, clipLog, mutedLog,
                   voiceVars, gatewayVars>>

AnalysisSucceeds == AnalysisSucceedsWith(Results)

AnalysisSucceedsSample == AnalysisSucceedsWith(SampleResults)

(* ======================= useCamera / Camera ======================= *)

\* the <video> and <canvas> are rendered unless hasPermission === false
Mounted(hasPermission) == hasPermission # "false"

\* what canvas.toBlob gives for a canvas of the size of the video
FrameWidth == 1280

\* video.videoWidth: 0 until the element has a stream and its first frame
VideoWidth(src, loaded) == IF src # <<>> /\ loaded THEN FrameWidth ELSE 0

\* captureFrame(): what the promise settles with
CaptureFrame(mounted, src, loaded) ==
  IF ~mounted THEN "Video or canvas not available"
  ELSE IF VideoWidth(src, loaded) = 0 THEN "Failed to capture frame"
  ELSE "snapshot"

Opposite(facing) == IF facing = "environment" THEN "user" ELSE "environment"

\* startCamera of a render whose facingMode was facing, up to its await:
\* setError(null), getUserMedia requested.
\* Sets the camera variables but cameraToggles.
StartCameraRequest(facing) ==
  /\ cameraStarts < MaxCamStarts
  /\ cameraError' = "none"
  /\ cameraStarts' = cameraStarts + 1
  /\ requestedFacing' = Append(requestedFacing, facing)
  /\ UNCHANGED <<cameraIsActive, cameraHasPermission, facingMode, stream, videoSrc>>

StopCameraKeepingVideo ==
  /\ stream' = <<>>
  /\ cameraIsActive' = FALSE
  /\ UNCHANGED videoSrc

\* stopCamera of the current render. Sets stream, cameraIsActive, videoSrc.
StopCamera ==
  /\ stream' = <<>>
  /\ cameraIsActive' = FALSE
  /\ videoSrc' = IF Mounted(cameraHasPermission) THEN <<>> ELSE videoSrc

\* App's mount effect: setTimeout(() => cameraRef.current?.start(), 500)
AutoStartCamera ==
  /\ autoStartPending
  /\ autoStartPending' = FALSE
  /\ op' = "autoStartCamera"
  /\ out' = <<>>
  /\ IF inputMode = "camera"
     THEN StartCameraRequest(facingMode) /\ UNCHANGED cameraToggles
     ELSE UNCHANGED cameraVars
  /\ UNCHANGED <<mode, inputMode, isScanning, isAnalyzing, detections, lastDescription,
                 panicLevel, isPanic, error, uploadedImage, scanIntervalRef, timers, scans,
                 hapticVars, audioVars, playerVars, voiceVars, gatewayVars>>

\* the "Enable Camera" button of the permission-denied view
EnableCamera ==
  /\ inputMode = "camera"
  /\ cameraHasPermission = "false"
  /\ op' = "enableCamera"
  /\ out' = <<>>
  /\ StartCameraRequest(facingMode)
  /\ UNCHANGED cameraToggles
  /\ UNCHANGED <<appVars, hapticVars, audioVars, playerVars, voiceVars, gatewayVars>>

\* getUserMedia settles; on failure Camera's error effect calls App's setError
StartCameraResolves ==
  \E ok \in BOOLEAN, i \in DOMAIN requestedFacing :
    /\ cameraStarts > 0
    /\ op' = "startCameraResolves"
    /\ out' = <<>>
    /\ cameraStarts' = cameraStarts - 1
    /\ requestedFacing' = SubSeq(requestedFacing, 1, i - 1)
                             \o SubSeq(requestedFacing, i + 1, Len(requestedFacing))
    /\ IF ok
       THEN /\ cameraIsActive' = TRUE
            /\ cameraHasPermission' = "true"
            /\ stream' = <<[facing |-> requestedFacing[i]]>>
            /\ videoSrc' = IF Mounted(cameraHasPermission)
                           THEN <<[facing |-> requestedFacing[i]]>> ELSE videoSrc
            /\ UNCHANGED <<cameraError, error>>
       ELSE /\ cameraIsActive' = FALSE
            /\ cameraHasPermission' = "false"
            /\ cameraError' = "CameraError"
            /\ error' = Pinned(error, inputMode, "CameraError")
            /\ videoSrc' = <<>>
            /\ UNCHANGED stream
    /\ UNCHANGED <<facingMode, cameraToggles>>
    /\ UNCHANGED <<mode, inputMode, isScanning, isAnalyzing, detections, lastDescription,
                   panicLevel, isPanic, uploadedImage, scanIntervalRef, timers, scans,
                   autoStartPending, hapticVars, audioVars, playerVars, voiceVars, gatewayVars>>

\* start() of Camera's imperative handle
CameraStart ==
  /\ op' = "camera.start"
  /\ out' = << <<"getUserMedia", facingMode>> >>
  /\ StartCameraRequest(facingMode)
  /\ UNCHANGED <<appVars, hapticVars, audioVars, playerVars, voiceVars, gatewayVars, cameraToggles>>

\* stop() of Camera's imperative handle
CameraStop ==
  /\ op' = "camera.stop"
  /\ out' = <<>>
  /\ StopCamera
  /\ UNCHANGED <<appVars, hapticVars, audioVars, playerVars, voiceVars, gatewayVars,
                 cameraHasPermission, cameraError, cameraStarts, facingMode,
                 requestedFacing, cameraToggles>>

\* toggle() of Camera's imperative handle: toggleCamera up to its 100 ms pause
CameraToggle ==
  /\ op' = "camera.toggle"
  /\ out' = <<>>
  /\ facingMode' = Opposite(facingMode)
  /\ IF cameraIsActive
     THEN /\ BagCardinality(cameraToggles) < MaxToggles
          /\ StopCamera
          /\ cameraToggles' = cameraToggles (+) One([facing |-> facingMode,
                                         inUse |-> Head(stream).facing])
     ELSE UNCHANGED <<stream, cameraIsActive, videoSrc, cameraToggles>>
  /\ UNCHANGED <<appVars, hapticVars, audioVars, playerVars, voiceVars, gatewayVars,
                 cameraHasPermission, cameraError, cameraStarts, requestedFacing>>

\* the pause of a toggleCamera call is over: await startCamera(), the startCamera
\* of the render in which the call was made
ToggleWaitOver ==
  \E t \in BagToSet(cameraToggles) :
    /\ op' = "camera.toggle.startCamera"
    /\ out' = << <<"getUserMedia", t.facing>> >>
    /\ StartCameraRequest(t.facing)
    /\ cameraToggles' = cameraToggles (-) One(t)
    /\ UNCHANGED <<appVars, hapticVars, audioVars, playerVars, voiceVars, gatewayVars>>

\* capture() of Camera's imperative handle, until its promise settles; loaded
\* says whether the <video> has a frame of its stream
Capture ==
  \E loaded \in BOOLEAN :
    /\ op' = "camera.capture"
    /\ out' = << <<"capture", CaptureFrame(Mounted(cameraHasPermission), videoSrc, loaded)>> >>
    /\ UNCHANGED <<appVars, hapticVars, audioVars, playerVars, voiceVars, gatewayVars, cameraVars>>

(* ======================= useAudio: events of the clip path ======================= *)

\* the values handed to setVolume: below, inside and above [0, 1], in tenths
VolumeInputs == {0 - 5, 0, 5, FullVolume, FullVolume + 5}

\* playAudio(clip, priority) of AudioFeedback's imperative handle; the clip is
\* named by the number of the call
PlayAudio ==
  \E priority \in BOOLEAN :
    /\ Len(clipLog) < MaxClips
    /\ op' = "playAudio"
    /\ out' = << <<"audio.playAudio", "clip", Pri(priority)>> >>
    /\ clipLog' = Append(clipLog, priority)
    /\ mutedLog' = Append(mutedLog, audioIsMuted)
    /\ PlayBase64Audio(Len(clipLog) + 1, priority)
    /\ UNCHANGED <<appVars, hapticVars, audioVars, cameraVars, isPlayingRef, audioIsPlaying,
                   volume, voiceVars, gatewayVars>>

\* the oldest 100 ms timer fires: playAudioData(next) of the closure that set it
PlayTimerFires ==
  /\ Len(playTimers) > 0
  /\ op' = "playAudioData"
  /\ playTimers' = Tail(playTimers)
  /\ IF Head(playTimers).muted
     THEN /\ out' = <<>>
          /\ UNCHANGED <<audios, audioElRef>>
     ELSE /\ out' = << <<"audio.play">> >>
          /\ audios' = audios \cup {NewAudio(Head(playTimers).clip, FALSE,
                                           Head(playTimers).volume)}
          /\ audioElRef' = <<Head(playTimers).clip>>
  /\ UNCHANGED <<appVars, hapticVars, audioVars, cameraVars, queue, isPlayingRef,
                 audioIsPlaying, volume, clipLog, mutedLog, voiceVars, gatewayVars>>

\* audio.onplay of an element
AudioPlays ==
  \E e \in audios :
    /\ e.phase = "starting"
    /\ op' = "audio.onplay"
    /\ out' = <<>>
    /\ audios' = (audios \ {e}) \cup {[e EXCEPT !.phase = "playing"]}
    /\ audioIsPlaying' = TRUE
    /\ isPlayingRef' = TRUE
    /\ UNCHANGED <<appVars, hapticVars, audioVars, cameraVars, queue, playTimers,
                   audioElRef, volume, clipLog, mutedLog, voiceVars, gatewayVars>>

\* what audio.onended and audio.onerror of element e do: clear the flags and
\* audioRef.current, processQueue() of e's closure, then the queue effect.
\* Sets audios, audioIsPlaying, isPlayingRef, audioElRef, queue, playTimers.
AudioFinished(e) ==
  LET once == ProcessQueue(queue, playTimers, FALSE, e.muted, e.closureVolume)
      after == QueueEffect(once.queue, once.playTimers, FALSE, audioIsMuted, volume)
  IN /\ audios' = audios \ {e}
     /\ audioIsPlaying' = FALSE
     /\ isPlayingRef' = FALSE
     /\ audioElRef' = <<>>
     /\ queue' = after.queue
     /\ playTimers' = after.playTimers

\* audio.onended of an element that is playing
AudioEnds ==
  \E e \in audios :
    /\ e.phase = "playing"
    /\ op' = "audio.onended"
    /\ out' = <<>>
    /\ AudioFinished(e)
    /\ UNCHANGED <<appVars, hapticVars, audioVars, cameraVars, volume, clipLog, mutedLog, voiceVars, gatewayVars>>

\* audio.onerror of an element that could not be loaded
AudioErrors ==
  \E e \in audios :
    /\ e.phase = "starting"
    /\ op' = "audio.onerror"
    /\ out' = <<>>
    /\ AudioFinished(e)
    /\ UNCHANGED <<appVars, hapticVars, audioVars, cameraVars, volume, clipLog, mutedLog, voiceVars, gatewayVars>>

\* the promise of audio.play() rejects (playback not allowed, or interrupted):
\* the catch callback clears the flags and does nothing else; the element
\* never plays and fires no event
PlayRejects ==
  \E e \in audios :
    /\ e.phase = "starting"
    /\ op' = "audio.playRejected"
    /\ out' = << <<"console.error", "Failed to play audio">> >>
    /\ audios' = audios \ {e}
    /\ audioIsPlaying' = FALSE
    /\ isPlayingRef' = FALSE
    /\ UNCHANGED <<appVars, hapticVars, audioVars, cameraVars, queue, playTimers,
                   audioElRef, volume, clipLog, mutedLog, voiceVars, gatewayVars>>

\* stop(), from the stop button shown while isPlaying
AudioStop ==
  /\ audioIsPlaying
  /\ op' = "audio.stop"
  /\ out' = IF hasSpeechSynthesis THEN << <<"speechSynthesis.cancel">> >> ELSE <<>>
  /\ audios' = audios \ RefElements(audios, audioElRef)
  /\ audioElRef' = <<>>
  /\ queue' = <<>>
  /\ audioIsPlaying' = FALSE
  /\ isPlayingRef' = FALSE
  /\ UNCHANGED <<appVars, hapticVars, audioVars, cameraVars, playTimers, volume, clipLog, mutedLog,
                 voiceVars, gatewayVars>>

\* setVolumeLevel(newVolume): the state, the volume of the element
\* audioRef.current holds, then, when the state changed, the queue effect of
\* the new render (processQueue is a new function when volume changes)
SetVolume ==
  \E newVolume \in VolumeInputs :
    LET clamped == ClampVolume(newVolume)
        after == IF clamped = volume THEN [queue |-> queue, playTimers |-> playTimers]
                 ELSE QueueEffect(queue, playTimers, isPlayingRef, audioIsMuted, clamped)
    IN
    /\ op' = "audio.setVolume"
    /\ out' = << <<"audio.setVolume", newVolume>> >>
    /\ volume' = clamped
    /\ audios' = {IF e \in RefElements(audios, audioElRef)
                  THEN [e EXCEPT !.volume = clamped] ELSE e : e \in audios}
    /\ queue' = after.queue
    /\ playTimers' = after.playTimers
    /\ UNCHANGED <<appVars, hapticVars, audioVars, cameraVars, audioElRef,
                   isPlayingRef, audioIsPlaying, clipLog, mutedLog, voiceVars, gatewayVars>>

(* ======================= useVoiceControl ======================= *)

\* Text is a sequence of one-character strings.

UpperCase == <<"A", "B", "C", "D", "E", "F", "G", "H", "I", "J", "K", "L", "M",
               "N", "O", "P", "Q", "R", "S", "T", "U", "V", "W", "X", "Y", "Z">>
LowerCase == <<"a", "b", "c", "d", "e", "f", "g", "h", "i", "j", "k", "l", "m",
               "n", "o", "p", "q", "r", "s", "t", "u", "v", "w", "x", "y", "z">>

\* the commands and their aliases, in the order of Object.entries
VOICE_COMMANDS == <<
  [command |-> "scan",
   aliases |-> <<<<"s", "c", "a", "n">>,
                 <<"l", "o", "o", "k">>,
                 <<"c", "h", "e", "c", "k">>,
                 <<"a", "n", "a", "l", "y", "z", "e">>,
                 <<"w", "h", "a", "t", " ", "d", "o", " ", "y", "o", "u", " ", "s", "e",
                  "e">>,
                 <<"d", "e", "s", "c", "r", "i", "b", "e">>>>],
  [command |-> "stop",
   aliases |-> <<<<"s", "t", "o", "p">>,
                 <<"h", "a", "l", "t">>,
                 <<"p", "a", "u", "s", "e">>,
                 <<"w", "a", "i", "t">>>>],
  [command |-> "start",
   aliases |-> <<<<"s", "t", "a", "r", "t">>,
                 <<"b", "e", "g", "i", "n">>,
                 <<"g", "o">>,
                 <<"r", "e", "s", "u", "m", "e">>,
                 <<"c", "o", "n", "t", "i", "n", "u", "e">>>>],
  [command |-> "help",
   aliases |-> <<<<"h", "e", "l", "p">>,
                 <<"c", "o", "m", "m", "a", "n", "d", "s">>,
                 <<"w", "h", "a", "t", " ", "c", "a", "n", " ", "i", " ", "s", "a", "y">>,
                 <<"o", "p", "t", "i", "o", "n", "s">>>>],
  [command |-> "mute",
   aliases |-> <<<<"m", "u", "t", "e">>,
                 <<"q", "u", "i", "e", "t">>,
                 <<"s", "i", "l", "e", "n", "c", "e">>,
                 <<"s", "h", "u", "t", " ", "u", "p">>>>],
  [command |-> "unmute",
   aliases |-> <<<<"u", "n", "m", "u", "t", "e">>,
                 <<"s", "o", "u", "n", "d", " ", "o", "n">>,
                 <<"s", "p", "e", "a", "k">>>>],
  [command |-> "repeat",
   aliases |-> <<<<"r", "e", "p", "e", "a", "t">>,
                 <<"a", "g", "a", "i", "n">>,
                 <<"s", "a", "y", " ", "a", "g", "a", "i", "n">>,
                 <<"w", "h", "a", "t">>>>] >>

\* text.toLowerCase()
ToLowerCase(text) ==
  IF text = <<>> THEN <<>>
  ELSE [i \in DOMAIN text |->
          IF \E k \in DOMAIN UpperCase : UpperCase[k] = text[i]
          THEN LowerCase[CHOOSE k \in DOMAIN UpperCase : UpperCase[k] = text[i]]
          ELSE text[i]]

RECURSIVE TrimStart(_)
TrimStart(text) ==
  IF Len(text) > 0 /\ text[1] = " " THEN TrimStart(Tail(text)) ELSE text

RECURSIVE TrimEnd(_)
TrimEnd(text) ==
  IF Len(text) > 0 /\ text[Len(text)] = " "
  THEN TrimEnd(SubSeq(text, 1, Len(text) - 1))
  ELSE text

\* text.trim()
Trim(text) == TrimEnd(TrimStart(text))

\* text.includes(alias)
Includes(text, alias) ==
  \E i \in 0..(Len(text) - Len(alias)) :
    \A j \in 1..Len(alias) : text[i + j] = alias[j]

\* the loops of matchCommand from the k-th command on: the first command one of
\* whose aliases normalized includes, "null" when there is none
RECURSIVE FirstCommand(_, _)
FirstCommand(normalized, k) ==
  IF k > Len(VOICE_COMMANDS) THEN "null"
  ELSE IF \E a \in DOMAIN VOICE_COMMANDS[k].aliases :
            Includes(normalized, VOICE_COMMANDS[k].aliases[a])
       THEN VOICE_COMMANDS[k].command
       ELSE FirstCommand(normalized, k + 1)

MatchCommandCaseSensitive(text) == FirstCommand(Trim(text), 1)

\* matchCommand(text)
MatchCommand(text) == FirstCommand(Trim(ToLowerCase(text)), 1)

\* onresult: the concatenation of the transcripts of the final (final = TRUE) or
\* of the interim (final = FALSE) results of an event
RECURSIVE Transcripts(_, _)
Transcripts(event, final) ==
  IF event = <<>> THEN <<>>
  ELSE (IF Head(event).isFinal = final THEN Head(event).transcript ELSE <<>>)
       \o Transcripts(Tail(event), final)

ResultCommandOfDisplayed(finalTranscript, interimTranscript) ==
  MatchCommand(IF finalTranscript # <<>> THEN finalTranscript ELSE interimTranscript)

\* onresult: the command of an event, "null" when it has no final text or the
\* final text matches nothing
ResultCommand(finalTranscript, interimTranscript) ==
  IF finalTranscript # <<>> THEN MatchCommand(finalTranscript) ELSE "null"

\* the utterance 'what do you see please'
WhatDoYouSeePlease ==
  <<"w", "h", "a", "t", " ", "d", "o", " ", "y", "o", "u", " ", "s", "e", "e", " ", "p",
    "l", "e", "a", "s", "e">>

\* what the user says, as the engine finalizes it
FinalUtterances ==
  {WhatDoYouSeePlease,
   <<"S", "c", "a", "n">>,
   <<"S", "T", "O", "P">>,
   <<"u", "n", "m", "u", "t", "e">>,
   <<"s", "o", "u", "n", "d", " ", "o", "n">>,
   <<"s", "t", "o", "p", " ", "a", "n", "d", " ", "g", "o">>,
   <<"g", "o", " ", "a", "n", "d", " ", "s", "t", "o", "p">>,
   <<"w", "h", "a", "t">>,
   <<"w", "h", "a", "t", " ", "c", "a", "n", " ", "i", " ", "s", "a", "y">>,
   <<"h", "e", "l", "l", "o", " ", "t", "h", "e", "r", "e">>,
   <<" ", "H", "e", "l", "p", " ">>,
   <<"s", "a", "y", " ", "a", "g", "a", "i", "n">>,
   <<"B", "e", "g", "i", "n">>,
   <<" ">>}

\* the events the engine gives to onresult (their results from resultIndex on):
\* one final result per utterance, and events with interim results
RecognitionEvents ==
  {<<[transcript |-> u, isFinal |-> TRUE]>> : u \in FinalUtterances}
  \cup {
      <<[transcript |-> <<"w", "h", "a", "t", " ", "d", "o", " ", "y", "o", "u", " ", "s",
        "e", "e">>, isFinal |-> FALSE]>>,
      <<[transcript |-> <<"s", "t", "o">>, isFinal |-> FALSE]>>,
      <<[transcript |-> <<"m", "u">>, isFinal |-> FALSE], [transcript |-> <<"t", "e">>,
        isFinal |-> FALSE]>>,
      <<[transcript |-> <<"s", "t", "o", "p">>, isFinal |-> TRUE], [transcript |-> <<" ",
        "n", "o", "w">>, isFinal |-> FALSE]>>,
      <<[transcript |-> <<"s", "c">>, isFinal |-> TRUE], [transcript |-> <<"a", "n">>,
        isFinal |-> TRUE]>>,
      <<[transcript |-> <<"h", "m">>, isFinal |-> FALSE], [transcript |-> <<"m", "u", "t",
        "e">>, isFinal |-> TRUE]>>}

\* event.error of onerror
ErrorCodes == {"not-allowed", "aborted", "no-speech", "network"}

\* the continuous option App passes
Continuous == TRUE

\* startListening(). Sets the listener's variables; recognition.start() throws
\* when the session is not idle.
StartListening ==
  IF ~voiceIsSupported
  THEN /\ voiceError' = "Speech recognition not supported"
       /\ out' = <<>>
       /\ UNCHANGED <<voiceIsEnabled, isListening, transcript, recognitionRef, session>>
  ELSE /\ recognitionRef' = IF recognitionRef = <<>>
                            THEN <<[isEnabled |-> voiceIsEnabled]>>
                            ELSE recognitionRef
       /\ voiceIsEnabled' = TRUE
       /\ out' = << <<"recognition.start">> >>
       /\ IF session = "idle"
          THEN session' = "starting" /\ UNCHANGED voiceError
          ELSE voiceError' = "InvalidStateError" /\ UNCHANGED session
       /\ UNCHANGED <<isListening, transcript>>

\* stopListening() without its setTranscript('')
StopListeningKeepingTranscript ==
  /\ voiceIsEnabled' = FALSE
  /\ out' = IF recognitionRef # <<>> THEN << <<"recognition.stop">> >> ELSE <<>>
  /\ session' = IF recognitionRef # <<>> /\ session \in {"starting", "listening"}
                THEN "stopping" ELSE session
  /\ isListening' = FALSE
  /\ UNCHANGED <<transcript, voiceError, recognitionRef>>

\* stopListening()
StopListening ==
  /\ voiceIsEnabled' = FALSE
  /\ out' = IF recognitionRef # <<>> THEN << <<"recognition.stop">> >> ELSE <<>>
  /\ session' = IF recognitionRef # <<>> /\ session \in {"starting", "listening"}
                THEN "stopping" ELSE session
  /\ isListening' = FALSE
  /\ transcript' = <<>>
  /\ UNCHANGED <<voiceError, recognitionRef>>

\* toggle(), from the voice button of the header
VoiceToggle ==
  /\ op' = "voice.toggle"
  /\ IF voiceIsEnabled THEN StopListening ELSE StartListening
  /\ UNCHANGED <<appVars, hapticVars, audioVars, cameraVars, playerVars,
                 voiceIsSupported, gatewayVars, lastCommand, restartTimers, heard, resultCount>>

\* recognition.onstart
RecognitionStarts ==
  /\ session = "starting"
  /\ op' = "recognition.onstart"
  /\ out' = <<>>
  /\ session' = "listening"
  /\ isListening' = TRUE
  /\ voiceError' = "null"
  /\ UNCHANGED <<appVars, hapticVars, audioVars, cameraVars, playerVars,
                 voiceIsSupported, gatewayVars, voiceIsEnabled, transcript, lastCommand,
                 recognitionRef, restartTimers, heard, resultCount>>

\* recognition.onend: the session is over, because of stop(), of an error, or
\* because the engine ended it; isEnabled is the one of the closure
RecognitionEnds ==
  /\ session \in {"listening", "stopping"}
  /\ op' = "recognition.onend"
  /\ out' = <<>>
  /\ session' = "idle"
  /\ isListening' = FALSE
  /\ restartTimers' = IF Head(recognitionRef).isEnabled /\ Continuous
                      THEN restartTimers + 1 ELSE restartTimers
  /\ UNCHANGED <<appVars, hapticVars, audioVars, cameraVars, playerVars,
                 voiceIsSupported, gatewayVars, voiceIsEnabled, transcript, lastCommand, voiceError,
                 recognitionRef, heard, resultCount>>

\* the callback of onend's 100 ms timer; recognition.start() throws out of the
\* callback when the session is not idle
RestartTimerFires ==
  /\ restartTimers > 0
  /\ op' = "restart"
  /\ restartTimers' = restartTimers - 1
  /\ IF recognitionRef # <<>> /\ Head(recognitionRef).isEnabled
     THEN /\ out' = << <<"recognition.start">> >>
          /\ session' = IF session = "idle" THEN "starting" ELSE session
     ELSE /\ out' = <<>>
          /\ UNCHANGED session
  /\ UNCHANGED <<appVars, hapticVars, audioVars, cameraVars, playerVars,
                 voiceIsSupported, gatewayVars, voiceIsEnabled, isListening, transcript, lastCommand,
                 voiceError, recognitionRef, heard, resultCount>>

EnabledAfterErrorNever(code, enabled) == FALSE

\* onerror: isEnabled after the handler
EnabledAfterError(code, enabled) ==
  IF code = "not-allowed" THEN FALSE ELSE enabled

\* onerror: the error state after the handler
ErrorAfterError(code, err) ==
  IF code = "not-allowed" THEN "Microphone access denied"
  ELSE IF code \notin {"aborted", "no-speech"} THEN code
  ELSE err

\* recognition.onerror; the engine ends the session after it
RecognitionError ==
  \E code \in ErrorCodes :
    /\ session \in {"starting", "listening"}
    /\ op' = "recognition.onerror"
    /\ out' = << <<"console.error", code>> >>
    /\ session' = "stopping"
    /\ voiceError' = ErrorAfterError(code, voiceError)
    /\ voiceIsEnabled' = EnabledAfterError(code, voiceIsEnabled)
    /\ isListening' = FALSE
    /\ UNCHANGED <<appVars, hapticVars, audioVars, cameraVars, playerVars,
                   voiceIsSupported, gatewayVars, transcript, lastCommand, recognitionRef,
                   restartTimers, heard, resultCount>>

\* recognition.onresult; results still arrive after stop() until the session ends
RecognitionResult ==
  \E event \in RecognitionEvents :
    LET finalTranscript == Transcripts(event, TRUE)
        interimTranscript == Transcripts(event, FALSE)
        command == ResultCommand(finalTranscript, interimTranscript)
    IN
    /\ session \in {"listening", "stopping"}
    /\ resultCount < MaxResults
    /\ resultCount' = resultCount + 1
    /\ heard' = event
    /\ transcript' = IF finalTranscript # <<>> THEN finalTranscript ELSE interimTranscript
    /\ IF command # "null"
       THEN /\ lastCommand' = <<[command |-> command, transcript |-> finalTranscript]>>
            /\ HandleVoiceCommandOf(command)
       ELSE /\ op' = "recognition.onresult"
            /\ out' = <<>>
            /\ UNCHANGED <<lastCommand, appVars, hapticVars, audioVars, cameraVars,
                           playerVars>>
    /\ UNCHANGED <<voiceIsSupported, gatewayVars, voiceIsEnabled, isListening, voiceError,
                   recognitionRef, session, restartTimers>>

(* ======================= demo gateway: POST /api/analyze ======================= *)

\* what the front end's state is to the gateway: another process
frontVars == <<appVars, hapticVars, audioVars, cameraVars, playerVars, voiceVars>>

\* the catch block of the handler: the request is counted as failed and
\* answered with 500
Caught ==
  /\ failedScans' = failedScans + 1
  /\ out' = << <<"res.status", 500>> >>

\* the handler from its entry to `await fetch(...)`, or to the 400 answer
\* when the body is missing or empty
AnalyzeRequest ==
  \E empty \in BOOLEAN :
    /\ totalScans < MaxRequests
    /\ op' = "gateway.analyze"
    /\ totalScans' = totalScans + 1
    /\ IF empty
         THEN /\ failedScans' = failedScans + 1
              /\ out' = << <<"res.status", 400>> >>
              /\ UNCHANGED requests
         ELSE /\ requests' = requests (+) One("fetch")
              /\ out' = << <<"fetch">> >>
              /\ UNCHANGED failedScans
    /\ UNCHANGED <<successfulScans, panicEvents, lastScanTime, frontVars>>

\* fetch settles: it rejects (agent unreachable), or resolves with a response
\* that is ok or not; the handler runs to its next await
FetchSettles ==
  \E outcome \in {"rejects", "notOk", "ok"} :
    /\ BagIn("fetch", requests)
    /\ op' = "gateway.fetchSettles"
    /\ CASE outcome = "rejects" ->
               /\ Caught
               /\ requests' = requests (-) One("fetch")
           [] outcome = "notOk" ->
               /\ failedScans' = failedScans + 1
               /\ out' = << <<"response.text">> >>
               /\ requests' = (requests (-) One("fetch")) (+) One("text")
           [] outcome = "ok" ->
               /\ out' = << <<"response.json">> >>
               /\ requests' = (requests (-) One("fetch")) (+) One("json")
               /\ UNCHANGED failedScans
    /\ UNCHANGED <<totalScans, successfulScans, panicEvents, lastScanTime, frontVars>>

\* response.text() of a response that was not ok settles: the error text is
\* passed on with the agent's status, or reading the body rejects and the
\* catch block runs
TextSettles ==
  \E outcome \in {"resolves", "rejects"} :
    /\ BagIn("text", requests)
    /\ op' = "gateway.textSettles"
    /\ requests' = requests (-) One("text")
    /\ IF outcome = "rejects"
         THEN Caught
         ELSE /\ out' = << <<"res.status", "agent">> >>
              /\ UNCHANGED failedScans
    /\ UNCHANGED <<totalScans, successfulScans, panicEvents, lastScanTime, frontVars>>

\* response.json() of an ok response settles: the body is not JSON (it
\* rejects), or it is the JSON value null, or an object with or without panic
JsonSettles ==
  \E data \in {"rejects", "null", "panic", "calm"} :
    /\ BagIn("json", requests)
    /\ op' = "gateway.jsonSettles"
    /\ requests' = requests (-) One("json")
    /\ IF data = "rejects"
         THEN /\ Caught
              /\ UNCHANGED <<successfulScans, panicEvents, lastScanTime>>
         ELSE /\ successfulScans' = successfulScans + 1
              /\ lastScanTime' = "set"
              /\ IF data = "null"
                   \* data.panic throws a TypeError
                   THEN Caught /\ UNCHANGED panicEvents
                   ELSE /\ panicEvents' = IF data = "panic" THEN panicEvents + 1
                                          ELSE panicEvents
                        /\ out' = << <<"res.json", data>> >>
                        /\ UNCHANGED failedScans
    /\ UNCHANGED <<totalScans, frontVars>>

(* ======================= specifications ======================= *)

\* useHaptic's mount effect if it ignored the saved preference
EnabledAtMountAlways(saved) == TRUE

\* useHaptic's mount effect: isEnabled starts true and is set to
\* savedPreference === 'true' when localStorage holds a value
EnabledAtMount(saved) ==
  IF saved # "null" THEN saved = "true" ELSE TRUE

\* the state after construction, given the device's and the browser's
\* capabilities and the persisted preference
Constructed(vibration, saved, synth) ==
  /\ mode = "manual"
  /\ inputMode = "camera"
  /\ isScanning = FALSE
  /\ isAnalyzing = FALSE
  /\ detections = 0
  /\ lastDescription = ""
  /\ panicLevel = "none"
  /\ isPanic = FALSE
  /\ error = "none"
  /\ uploadedImage = FALSE
  /\ scanIntervalRef = <<>>
  /\ timers = EmptyBag
  /\ scans = EmptyBag
  /\ autoStartPending = TRUE
  /\ hapticIsSupported = vibration
  /\ savedPreference = saved
  /\ hapticIsEnabled = EnabledAtMount(saved)
  /\ lastPattern = "null"
  /\ audioIsMuted = FALSE
  /\ hasSpeechSynthesis = synth
  /\ cameraIsActive = FALSE
  /\ cameraHasPermission = "null"
  /\ cameraError = "none"
  /\ cameraStarts = 0
  /\ facingMode = "environment"
  /\ stream = <<>>
  /\ videoSrc = <<>>
  /\ requestedFacing = <<>>
  /\ cameraToggles = EmptyBag
  /\ op = "init"
  /\ out = <<>>

\* useAudio after its first render
AudioConstructed ==
  /\ queue = <<>>
  /\ playTimers = <<>>
  /\ audios = {}
  /\ audioElRef = <<>>
  /\ isPlayingRef = FALSE
  /\ audioIsPlaying = FALSE
  /\ volume = FullVolume
  /\ clipLog = <<>>
  /\ mutedLog = <<>>

\* useVoiceControl after its mount effects, in a browser with (recognition)
\* or without the SpeechRecognition API
VoiceConstructed(recognition) ==
  /\ voiceIsSupported = recognition
  /\ voiceIsEnabled = FALSE
  /\ isListening = FALSE
  /\ transcript = <<>>
  /\ lastCommand = <<>>
  /\ voiceError = "null"
  /\ recognitionRef = <<>>
  /\ session = "idle"
  /\ restartTimers = 0
  /\ heard = <<>>
  /\ resultCount = 0

\* the gateway after start-up: the analytics object as declared
GatewayStarted ==
  /\ totalScans = 0
  /\ successfulScans = 0
  /\ failedScans = 0
  /\ panicEvents = 0
  /\ lastScanTime = "null"
  /\ requests = EmptyBag

(* Orchestration: App.jsx in a browser with speech synthesis on a device    *)
(* without the Vibration API (the haptic toggle is then not rendered), the  *)
(* backend answering with one of SampleResults.                             *)
Init ==
  /\ Constructed(FALSE, "null", TRUE)
  /\ AudioConstructed
  /\ VoiceConstructed(TRUE)
  /\ GatewayStarted

Next ==
  \/ ScanButton
  \/ HandleModeChange
  \/ HandleVoiceCommand
  \/ TimerTick
  \/ CaptureResolves
  \/ AnalysisFails
  \/ AnalysisSucceedsSample
  \/ ToggleMute
  \/ AutoStartCamera
  \/ EnableCamera
  \/ StartCameraResolves

Spec == Init /\ [][Next]_vars

(* The audio channel: useAudio under any client that calls playAudio, with   *)
(* the events of its timers and Audio elements, the mute and stop buttons    *)
(* and the volume slider.                                                    *)
NextAudio ==
  \/ PlayAudio
  \/ PlayTimerFires
  \/ AudioPlays
  \/ AudioEnds
  \/ AudioErrors
  \/ PlayRejects
  \/ AudioStop
  \/ SetVolume
  \/ ToggleMute

SpecAudio == Init /\ [][NextAudio]_vars

(* The voice listener: useVoiceControl under the voice button and the events *)
(* of the recognition engine, with App's handleVoiceCommand as onCommand.    *)
(* onend's restart timer is never set (RecognitionEnds reads the isEnabled   *)
(* of the closure, which is false), so its callback is not among the steps.  *)
InitVoice ==
  /\ Constructed(FALSE, "null", TRUE)
  /\ AudioConstructed
  /\ \E recognition \in BOOLEAN : VoiceConstructed(recognition)
  /\ GatewayStarted

NextVoice ==
  \/ VoiceToggle
  \/ RecognitionStarts
  \/ RecognitionEnds
  \/ RecognitionError
  \/ RecognitionResult

SpecVoice == InitVoice /\ [][NextVoice]_vars

(* The capture source: useCamera under any client of Camera's imperative     *)
(* handle, with the settlements of getUserMedia and of the toggle's pause.   *)
NextCamera ==
  \/ CameraStart
  \/ StartCameraResolves
  \/ CameraStop
  \/ CameraToggle
  \/ ToggleWaitOver
  \/ Capture

SpecCamera == Init /\ [][NextCamera]_vars

(* The App of the photo-upload variant: the same with the photo input mode. *)
NextPhoto ==
  \/ Next
  \/ HandleInputModeChange
  \/ HandlePhotoSelect
  \/ HandleAnalyzePhoto

SpecPhoto == Init /\ [][NextPhoto]_vars

(* Feedback dispatch: one accepted scan in flight (after camera start and a *)
(* scan trigger in manual mode), on any device, the audio channel muted or  *)
(* not; the user may toggle haptics and mute while it is in flight; the     *)
(* backend answers with any of Results; the clip of a result is played, or  *)
(* fails to play, by the audio channel.                                     *)
InitFeedback ==
  \E vibration \in BOOLEAN, saved \in {"null", "true", "false"}, synth \in BOOLEAN,
     muted \in BOOLEAN, phase \in {"capture", "analyze"}, o \in DeviceOutcomes :
    LET tap == Vibrate("tap", vibration, saved # "false", o) IN
    /\ mode = "manual"
    /\ inputMode = "camera"
    /\ isScanning = FALSE
    /\ isAnalyzing = TRUE
    /\ detections = 0
    /\ lastDescription = ""
    /\ panicLevel = "none"
    /\ isPanic = FALSE
    /\ error = "none"
    /\ uploadedImage = FALSE
    /\ scanIntervalRef = <<>>
    /\ timers = EmptyBag
    /\ scans = One([NewScan("camera", saved # "false") EXCEPT !.phase = phase])
    /\ autoStartPending = FALSE
    /\ hapticIsSupported = vibration
    /\ savedPreference = saved
    /\ hapticIsEnabled = (saved # "false")
    /\ lastPattern = LastPatternAfter("null", <<tap>>)
    /\ audioIsMuted = muted
    /\ hasSpeechSynthesis = synth
    /\ cameraIsActive = TRUE
    /\ cameraHasPermission = "true"
    /\ cameraError = "none"
    /\ cameraStarts = 0
    /\ facingMode = "environment"
    /\ stream = <<[facing |-> "environment"]>>
    /\ videoSrc = <<[facing |-> "environment"]>>
    /\ requestedFacing = <<>>
    /\ cameraToggles = EmptyBag
    /\ AudioConstructed
    /\ VoiceConstructed(TRUE)
    /\ GatewayStarted
    /\ op = IF phase = "capture" THEN "handleScan" ELSE "captureResolves"
    /\ out = IF phase = "capture" THEN tap.calls \o << <<"camera.capture">> >>
             ELSE << <<"analyzeImage">> >>

NextFeedback ==
  \/ CaptureResolves
  \/ AnalysisFails
  \/ AnalysisSucceeds
  \/ PlayTimerFires
  \/ AudioPlays
  \/ AudioEnds
  \/ AudioErrors
  \/ PlayRejects
  \/ HapticToggle
  \/ ToggleMute

SpecFeedback == InitFeedback /\ [][NextFeedback]_vars

(* The scan triggers on any device: the triggers of App, with or without   *)
(* the Vibration API and with any persisted haptic preference, around the   *)
(* start of the camera; the scans that are accepted stay pending.           *)
InitTriggers ==
  /\ \E vibration \in BOOLEAN, saved \in {"null", "true", "false"} :
       Constructed(vibration, saved, TRUE)
  /\ AudioConstructed
  /\ VoiceConstructed(TRUE)
  /\ GatewayStarted

\* the page is loaded again on the same device: a new session, constructed
\* from what localStorage holds (the audio channel and the voice listener are
\* never used in this specification and are as constructed)
NewSession ==
  /\ op \notin {"init", "newSession"}
  /\ op' = "newSession"
  /\ out' = <<>>
  /\ hapticIsEnabled' = EnabledAtMount(savedPreference)
  /\ lastPattern' = "null"
  /\ mode' = "manual" /\ inputMode' = "camera"
  /\ isScanning' = FALSE /\ isAnalyzing' = FALSE
  /\ detections' = 0 /\ lastDescription' = "" /\ panicLevel' = "none" /\ isPanic' = FALSE
  /\ error' = "none" /\ uploadedImage' = FALSE
  /\ scanIntervalRef' = <<>> /\ timers' = EmptyBag /\ scans' = EmptyBag
  /\ autoStartPending' = TRUE
  /\ audioIsMuted' = FALSE
  /\ cameraIsActive' = FALSE /\ cameraHasPermission' = "null" /\ cameraError' = "none"
  /\ cameraStarts' = 0 /\ facingMode' = "environment"
  /\ stream' = <<>> /\ videoSrc' = <<>> /\ requestedFacing' = <<>>
  /\ cameraToggles' = EmptyBag
  /\ UNCHANGED <<hapticIsSupported, savedPreference, hasSpeechSynthesis, playerVars,
                 voiceVars, gatewayVars>>

NextTriggers ==
  \/ NewSession
  \/ ScanButton
  \/ HandleModeChange
  \/ HandleVoiceCommand
  \/ TimerTick
  \/ HapticToggle
  \/ AutoStartCamera
  \/ EnableCamera
  \/ StartCameraResolves

SpecTriggers == InitTriggers /\ [][NextTriggers]_vars

(* The demo gateway: any number of /api/analyze requests up to MaxRequests,  *)
(* interleaved at their awaits, the AI agent answering in any way.          *)
NextGateway ==
  \/ AnalyzeRequest
  \/ FetchSettles
  \/ TextSettles
  \/ JsonSettles

SpecGateway == Init /\ [][NextGateway]_vars

(* ======================= properties ======================= *)

Range(s) == {s[i] : i \in DOMAIN s}

InFlight == BagCardinality(scans)

\* the last handler run was the catch branch of a scan
ScanFailed == Len(out) > 0 /\ out[1][1] = "settled"

\* the device calls of the last handler run that vibrate a pattern
DevicePatterns ==
  {e[2] : e \in {c \in Range(out) : c[1] = "navigator.vibrate"}} \ {"cancel", "throws"}

\* the utterances the last handler run handed to the speech synthesiser
Spoken == {e[2] : e \in {c \in Range(out) : c[1] = "speechSynthesis.speak"}}

StopOps == {"handleStop", "voice:stop", "handleModeChange"}

ManualScanOps == {"handleScan", "scanButtonDisabled", "voice:scan", "voice:start"}

(* ---- C1 ---- *)
\* C1: at most one scan is in flight at any time: no state holds two capture /
\* analysis cycles that have not resolved yet.
C1_AtMostOneScanInFlight == InFlight <= 1

(* ---- C2 ---- *)
\* C2: in continuous mode a timer tick that fires while an earlier scan has not
\* resolved starts no scan.
C2_TickSkippedWhileInFlight ==
  [][(op' = "timerTick" /\ mode = "continuous" /\ InFlight > 0) => scans' = scans]_vars

(* ---- C3 ---- *)
\* C3: after stop or a mode switch (continuous scanning is off and the interval
\* ref is null) no timer tick starts a scan, however often startContinuous ran
\* before the stop.
C3_NoScanFromTickAfterStop ==
  [][(op' = "timerTick" /\ ~isScanning /\ scanIntervalRef = <<>>) => scans' = scans]_vars

(* ---- C4 ---- *)
\* C4: stop and a mode switch abort no scan in flight: the step leaves every
\* suspended scan where it is, and each scan, when its capture or request
\* settles, still delivers its haptic and audio feedback and sets isAnalyzing
\* to false.
C4_StopLeavesScansInFlight ==
  [][/\ op' \in StopOps => scans' = scans
     /\ op' = "analysisSucceeds" =>
          /\ InFlight' = InFlight - 1
          /\ ~isAnalyzing'
          /\ out'[2][1] = "haptic.vibrateForDanger"
          /\ lastDescription' # "" =>
                \E e \in Range(out') : e[1] \in {"audio.playAudio", "audio.speak"}
     /\ (op' \in {"analysisFails", "captureResolves"} /\ out'[1][1] = "settled") =>
          /\ InFlight' = InFlight - 1
          /\ ~isAnalyzing'
          /\ out'[2][1] = "haptic.vibrate"
          /\ <<"audio.speak", ScanFailedText, "priority">> \in Range(out')]_vars

\* a stop or mode switch has just cleared the timer with a scan in flight, which
\* is still there
C4_StoppedWithScanInFlight ==
  /\ op \in StopOps /\ <<"clearInterval">> \in Range(out)
  /\ ~isScanning /\ InFlight > 0

(* ---- C5 ---- *)
\* C5: the orchestrator is never stuck analysing: isAnalyzing is true only while
\* some accepted scan has not settled yet, so once the capture and the request
\* of a scan settle, by a result, a capture failure or an analysis failure,
\* with no other scan pending, the state is idle again.
C5_AnalyzingOnlyWhileInFlight == isAnalyzing => InFlight > 0

\* a scan has just failed and the orchestrator is idle, showing the failure
C5_IdleAfterFailure ==
  /\ op \in {"analysisFails", "captureResolves"}
  /\ ScanFailed
  /\ error \in {"CaptureError", "AnalysisError"}
  /\ ~isAnalyzing /\ InFlight = 0

C7_FailureAlwaysSpoken ==
  [][(op' \in {"analysisFails", "captureResolves"} /\ ScanFailed') =>
       /\ error' = out'[1][3]
       /\ out'[2][1] = "haptic.vibrate" /\ out'[2][2] = "low"
       /\ ScanFailedText \in Spoken']_vars

\* C7 (amended): every failed scan sets the error slot to the failure message
\* (the camera holding no error of its own), requests the 'low' haptic pattern
\* and calls speak with the fixed error message and priority; the message is
\* spoken, after cancelling the current utterance, exactly when the audio
\* channel is not muted and speech synthesis is available, so a failure while
\* muted gives the visible error but no spoken announcement.
C7_FailureSpokenUnlessMuted ==
  [][(op' \in {"analysisFails", "captureResolves"} /\ ScanFailed') =>
       /\ cameraError = "none" => error' = out'[1][3]
       /\ error' # "none"
       /\ out'[2][1] = "haptic.vibrate" /\ out'[2][2] = "low"
       /\ <<"audio.speak", ScanFailedText, "priority">> \in Range(out')
       /\ Spoken' = IF ~audioIsMuted /\ hasSpeechSynthesis
                    THEN {ScanFailedText} ELSE {}
       /\ Spoken' # {} => <<"speechSynthesis.cancel">> \in Range(out')]_vars

\* an analysis has just failed while muted: the error shows, nothing was spoken
C7_MutedFailure ==
  /\ op = "analysisFails" /\ ScanFailed
  /\ audioIsMuted /\ hasSpeechSynthesis
  /\ error = "AnalysisError"
  /\ <<"audio.speak", ScanFailedText, "priority">> \in Range(out)
  /\ Spoken = {}

(* ---- C8 ---- *)
\* C8: on a successful analysis the haptic request is vibrateForDanger with the
\* response's panic_level and panic, and the audio request (the clip if the
\* response has one, else the description if it has one) carries priority equal
\* to the response's panic flag; a panic response of level high vibrates the
\* panic pattern, never the high pattern.
C8_SuccessFeedbackCarriesPanic ==
  [][op' = "analysisSucceeds" =>
       LET r == out'[1]
           audio == {e \in Range(out') : e[1] \in {"audio.playAudio", "audio.speak"}}
       IN
       /\ r[3] = Pri(isPanic')
       /\ SubSeq(out'[2], 1, 3) = <<"haptic.vibrateForDanger", r[2], r[3]>>
       /\ audio = IF r[4] # "" THEN {<<"audio.playAudio", r[4], r[3]>>}
                  ELSE IF r[5] # "" THEN {<<"audio.speak", r[5], r[3]>>}
                  ELSE {}
       /\ (isPanic' /\ r[2] = "high") =>
            /\ "high" \notin DevicePatterns'
            /\ out'[2][4] = "returns true" => DevicePatterns' = {"panic"}]_vars

\* a panic response of level high with a clip has just been delivered: the
\* device vibrated the panic pattern and the clip was enqueued with priority
C8_PanicHighDelivered ==
  /\ op = "analysisSucceeds"
  /\ isPanic /\ panicLevel = "high"
  /\ DevicePatterns = {"panic"}
  /\ <<"audio.playAudio", "clip", "priority">> \in Range(out)

(* ---- C9 ---- *)
\* C9: vibrateForDanger maps (level, isPanic) to one pattern: isPanic selects
\* 'panic' for every level; otherwise high, medium and low select the pattern of
\* the same name; any other level makes no device call and returns false.
C9_DangerMapping ==
  [][op' = "analysisSucceeds" =>
       LET r == out'[1]
           expected == IF r[3] = "priority" THEN "panic"
                       ELSE IF r[2] \in {"high", "medium", "low"} THEN r[2]
                       ELSE "none"
       IN
       /\ DevicePatterns' \subseteq {expected}
       /\ out'[2][4] = "returns true" => DevicePatterns' = {expected}
       /\ expected = "none" =>
            /\ out'[2][4] = "returns false"
            /\ \A e \in Range(out') : e[1] # "navigator.vibrate"]_vars

\* a panic response of level low has just vibrated the panic pattern
C9_PanicOverridesLevel ==
  /\ op = "analysisSucceeds"
  /\ isPanic /\ panicLevel = "low"
  /\ out[2][4] = "returns true"
  /\ DevicePatterns = {"panic"}

(* ---- C10 ---- *)
\* C10: the device is called only when vibration is supported and haptics are
\* enabled: a handler makes a navigator.vibrate call (a pattern or the
\* cancelling 0) only in a state where both flags are true.
C10_DeviceCallOnlyWhenEnabled ==
  (\E e \in Range(out) : e[1] = "navigator.vibrate") =>
     (hapticIsSupported /\ hapticIsEnabled)

\* the Audio elements that are audible
Playing == {e \in audios : e.phase = "playing"}

(* ---- C11 ---- *)
\* C11: at most one audio item is audibly playing at any instant.
C11_AtMostOnePlaying == Cardinality(Playing) <= 1

(* ---- C12 ---- *)
\* C12: non-priority clips play one after the other in the order of their
\* enqueueing: a later non-priority clip is not playing while an earlier one has
\* been started and has not finished.
C12_FifoOneAfterTheOther ==
  \A a \in audios, b \in audios :
    (a.clip < b.clip /\ ~clipLog[a.clip] /\ ~clipLog[b.clip]) => b.phase # "playing"

(* ---- C13 ---- *)
\* C13: once a priority clip has been enqueued no clip enqueued before it begins
\* playing: every element that starts playing is at least as recent as every
\* priority clip enqueued so far.
C13_NothingOlderStartsAfterPriority ==
  [][op' = "audio.onplay" =>
       \A e \in audios' \ audios : \A i \in DOMAIN clipLog : clipLog[i] => e.clip >= i]_vars

(* ---- C14 ---- *)
\* C14: an enqueue issued while the channel is muted, priority or not, starts no
\* playback: the call creates no Audio element.
C14_NoPlaybackStartedWhileMuted ==
  [][(op' = "playAudio" /\ audioIsMuted) => audios' \subseteq audios]_vars

(* ---- C15 ---- *)
\* C15: mute is idempotent: after the voice command 'mute', whatever the state
\* before it, the channel is muted.
C15_MutedAfterVoiceMute ==
  [][op' = "voice:mute" => audioIsMuted']_vars

(* ---- C16 ---- *)
\* C16: stop() leaves the queue empty and nothing playing, and what happens
\* next, unless it is a new enqueue, starts no playback: no new element appears
\* and no element begins to play.
C16_NothingStartsAfterStop ==
  [][/\ op' = "audio.stop" => (queue' = <<>> /\ ~audioIsPlaying' /\ Playing' = {})
     /\ (op = "audio.stop" /\ op' # "playAudio") => audios' \subseteq audios]_vars

(* ---- C17 ---- *)
\* C17: the stored volume is within [0, 1] in every state, and after
\* setVolume(v) it is min(1, max(0, v)).
C17_VolumeClamped ==
  /\ volume \in 0..FullVolume
  /\ op = "audio.setVolume" =>
       volume = (IF out[1][2] < 0 THEN 0
                 ELSE IF out[1][2] > FullVolume THEN FullVolume
                 ELSE out[1][2])

\* setVolume has just been given a negative value and stored 0
C17_NegativeClamped ==
  op = "audio.setVolume" /\ out[1][2] < 0 /\ volume = 0

\* the positions in VOICE_COMMANDS of the commands one of whose aliases is a
\* substring of the lower-cased text
Hits(text) ==
  LET lowered == ToLowerCase(text) IN
  {k \in DOMAIN VOICE_COMMANDS :
     \E alias \in Range(VOICE_COMMANDS[k].aliases) : Includes(lowered, alias)}

\* the least element of a non-empty set of numbers
Least(S) == CHOOSE k \in S : \A other \in S : k <= other

(* ---- C18 ---- *)
\* C18: a result with final text dispatches the first command, in the order of
\* the table, one of whose aliases is a substring of the lower-cased text, and
\* records it with the text; when no alias is a substring nothing is
\* dispatched and nothing recorded; 'what do you see please' gives scan.
C18_FirstMatchingCommand ==
  [][(resultCount' = resultCount + 1 /\ Transcripts(heard', TRUE) # <<>>) =>
       LET text == Transcripts(heard', TRUE)
           hits == Hits(text)
       IN
       /\ IF hits = {}
          THEN op' = "recognition.onresult" /\ out' = <<>> /\ lastCommand' = lastCommand
          ELSE LET first == VOICE_COMMANDS[Least(hits)].command IN
               /\ op' = "voice:" \o first
               /\ lastCommand' = <<[command |-> first, transcript |-> text]>>
       /\ text = WhatDoYouSeePlease => op' = "voice:scan"]_vars

\* 'STOP' (upper case) has just been dispatched as stop
C18_UpperCaseStopDispatched ==
  /\ op = "voice:stop"
  /\ heard = <<[transcript |-> <<"S", "T", "O", "P">>, isFinal |-> TRUE]>>
  /\ lastCommand = <<[command |-> "stop", transcript |-> <<"S", "T", "O", "P">>]>>

(* ---- C19 ---- *)
\* C19: a result with interim text only sets the live transcript to that text,
\* dispatches no command and leaves lastCommand as it was.
C19_InterimNeverDispatches ==
  [][(resultCount' = resultCount + 1 /\ Transcripts(heard', TRUE) = <<>>) =>
       /\ transcript' = Transcripts(heard', FALSE)
       /\ lastCommand' = lastCommand
       /\ op' = "recognition.onresult"
       /\ out' = <<>>
       /\ UNCHANGED <<appVars, hapticVars, audioVars, playerVars>>]_vars

\* the interim text 'what do you see' is displayed after an earlier command,
\* which is still the last command
C19_InterimAliasDisplayed ==
  /\ op = "recognition.onresult"
  /\ resultCount = 2
  /\ heard = <<[transcript |-> SubSeq(WhatDoYouSeePlease, 1, 15), isFinal |-> FALSE]>>
  /\ transcript = SubSeq(WhatDoYouSeePlease, 1, 15)
  /\ lastCommand # <<>>

(* ---- C20 ---- *)
\* C20: whenever the session ends while the listener is enabled (and
\* continuous), a restart is scheduled.
C20_RestartScheduledAtEnd ==
  [][(op' = "recognition.onend" /\ voiceIsEnabled /\ Continuous) =>
       restartTimers' = restartTimers + 1]_vars

(* ---- C21 ---- *)
\* C21: on a recognition error, 'not-allowed' disables the listener and sets
\* the error shown to the user; 'no-speech' and 'aborted' leave the error and
\* the enabled flag as they were; every other code becomes the error and the
\* enabled flag stays as it was.
C21_ErrorCodesHandled ==
  [][op' = "recognition.onerror" =>
       LET code == out'[1][2] IN
       IF code = "not-allowed"
       THEN ~voiceIsEnabled' /\ voiceError' = "Microphone access denied"
       ELSE IF code \in {"no-speech", "aborted"}
       THEN voiceIsEnabled' = voiceIsEnabled /\ voiceError' = voiceError
       ELSE voiceIsEnabled' = voiceIsEnabled /\ voiceError' = code]_vars

\* a 'network' error has been surfaced and the listener is still enabled
C21_NetworkErrorKeepsEnabled ==
  /\ op = "recognition.onerror"
  /\ out = << <<"console.error", "network">> >>
  /\ voiceError = "network"
  /\ voiceIsEnabled

\* what handleScan() does to the scan state in a step: a scan starts when the
\* camera is active and no analysis is pending, and nothing changes otherwise
ScanAttempted ==
  IF CameraRefActive /\ ~isAnalyzing
  THEN isAnalyzing' /\ BagCardinality(scans') = BagCardinality(scans) + 1
  ELSE UNCHANGED <<isAnalyzing, scans>>

\* what handleStop() does to the scan state and the timer in a step
StopDone ==
  /\ ~isScanning'
  /\ scanIntervalRef' = <<>>
  /\ timers' = ClearInterval(timers, scanIntervalRef)
  /\ UNCHANGED <<isAnalyzing, scans>>

\* what a tap on the scan button does to the scan state and the timer in a
\* step: nothing while it is disabled, handleScanClick otherwise
ScanButtonDone ==
  IF isAnalyzing
  THEN UNCHANGED <<isScanning, isAnalyzing, scans, timers, scanIntervalRef>>
  ELSE IF mode = "continuous" /\ isScanning
  THEN StopDone
  ELSE IF mode = "continuous"
  THEN /\ isScanning'
       /\ scanIntervalRef' # <<>>
       /\ BagCardinality(timers') = BagCardinality(timers) + 1
       /\ ScanAttempted
  ELSE ScanAttempted /\ UNCHANGED <<isScanning, timers, scanIntervalRef>>

(* ---- C22 ---- *)
\* C22 (as stated): from every state the voice command 'scan' changes the scan
\* state and the timer as a tap on the scan button does, and the voice command
\* 'stop' as the stop action does.
C22_VoiceScanLikeButton ==
  [][/\ op' = "voice:scan" => ScanButtonDone
     /\ op' = "voice:stop" => StopDone]_vars

\* C22 (amended): in manual mode the voice command 'scan' changes the scan state
\* and the timer as a tap on the scan button does; in continuous mode it
\* attempts one scan and leaves isScanning and the timer alone; the voice
\* command 'stop' changes them as the stop action does.
C22_VoiceScanIsSingleScan ==
  [][/\ (op' = "voice:scan" /\ mode = "manual") => ScanButtonDone
     /\ (op' = "voice:scan" /\ mode = "continuous") =>
          (ScanAttempted /\ UNCHANGED <<isScanning, timers, scanIntervalRef>>)
     /\ op' = "voice:stop" => StopDone]_vars

\* in continuous mode, not scanning, the voice command 'scan' has started one
\* scan and armed no timer
C22_VoiceScanInContinuousMode ==
  /\ op = "voice:scan"
  /\ mode = "continuous"
  /\ <<"camera.capture">> \in Range(out)
  /\ isAnalyzing
  /\ ~isScanning
  /\ scanIntervalRef = <<>>

(* ---- C23 ---- *)
\* C23: while continuous scanning is on, every tick that fires while no scan is
\* pending (isAnalyzing false, nothing in flight) and the camera is active
\* starts a scan, whatever the scan state was when startContinuousScanning ran.
C23_TickStartsScanWhenIdle ==
  [][(op' = "timerTick" /\ isScanning /\ ~isAnalyzing /\ InFlight = 0 /\ CameraRefActive)
       => InFlight' = 1]_vars

(* ---- C24 ---- *)
\* C24: capture() gives a snapshot only while the source is active; while it is
\* not (never started, stopped, failed to start) capture() fails.
C24_CaptureFailsWhenInactive ==
  [][(op' = "camera.capture" /\ ~cameraIsActive) =>
       out'[1][2] \in {"Video or canvas not available", "Failed to capture frame"}]_vars

\* capture() has failed on a camera that had been started and was stopped
C24_CaptureAfterStopFailed ==
  /\ op = "camera.capture"
  /\ out = << <<"capture", "Failed to capture frame">> >>
  /\ cameraHasPermission = "true"
  /\ ~cameraIsActive
  /\ stream = <<>>
  /\ cameraStarts = 0
  /\ cameraToggles = EmptyBag

(* ---- C25 ---- *)
\* C25: the restart of a toggleCamera call made while active requests the
\* facing mode opposite to the one of the stream the call stopped.
C25_ToggleRequestsOpposite ==
  [][op' = "camera.toggle.startCamera" =>
       \A t \in BagToSet(cameraToggles) :
         cameraToggles' = cameraToggles (-) One(t) => out'[1][2] = Opposite(t.inUse)]_vars

(* ---- C26 ---- *)
\* the calls o of one step contain a call named tag
Has(o, tag) == \E i \in DOMAIN o : o[i][1] = tag

\* the positions in the calls o of the feedback driven by a scan's result: the
\* danger vibration and the playing or speaking of what the backend returned
ResultFeedbackAt(o) ==
  {i \in DOMAIN o : \/ o[i][1] \in {"haptic.vibrateForDanger", "audio.playAudio"}
                    \/ o[i][1] = "audio.speak" /\ o[i][3] = "normal"}

\* C26: within one scan the steps are ordered. The step that calls capture()
\* leaves the scan waiting for the capture and sends no analysis request; the
\* analysis request is sent only in the step in which a scan's capture has
\* settled; feedback driven by a result is issued only in the step in which a
\* scan's analysis has resolved, after the response was received.
C26_CaptureThenAnalysisThenFeedback ==
  [][/\ Has(out', "camera.capture") =>
          /\ \E s \in BagToSet(scans') :
               s.kind = "camera" /\ s.phase = "capture" /\ scans' = scans (+) One(s)
          /\ ~Has(out', "analyzeImage") /\ ResultFeedbackAt(out') = {}
     /\ Has(out', "analyzeImage") =>
          /\ \E s \in BagToSet(scans) :
               /\ s.phase = "capture"
               /\ scans' = (scans (-) One(s)) (+) One([s EXCEPT !.phase = "analyze"])
          /\ ResultFeedbackAt(out') = {}
     /\ ResultFeedbackAt(out') # {} =>
          /\ out'[1][1] = "response" /\ 1 \notin ResultFeedbackAt(out')
          /\ \E s \in BagToSet(scans) : s.phase = "analyze" /\ scans' = scans (-) One(s)]_vars

\* a scan's response has arrived and its clip was handed to the audio channel
C26_ClipPlayedAfterResponse ==
  op = "analysisSucceeds" /\ out[1][1] = "response" /\ Has(out, "audio.playAudio")

(* ---- C27 ---- *)
\* C27: every pattern vibrate() gives to navigator.vibrate comes directly after
\* its navigator.vibrate(0), whether the vibration is a tap, a danger pattern or
\* the failure pattern.
C27_CancelBeforeEveryPattern ==
  \A i \in DOMAIN out :
    (out[i][1] = "navigator.vibrate" /\ out[i][2] \in PatternNames) =>
      (i > 1 /\ out[i - 1] = <<"navigator.vibrate", "cancel">>)

\* the failure pattern has been given to the device
C27_FailurePatternIssued ==
  op = "analysisFails" /\ \E i \in DOMAIN out : out[i] = <<"navigator.vibrate", "low">>

(* ---- C29 ---- *)
\* C29: a clip enqueued while the channel was muted is never played later:
\* while the channel is unmuted no 100 ms timer starts the playback of a clip
\* whose playAudio call was made while muted.
C29_MutedClipNeverPlayedLater ==
  [][(op' = "playAudioData" /\ ~audioIsMuted) =>
       \A e \in audios' \ audios : ~mutedLog[e.clip]]_vars

(* ---- C30 ---- *)
\* C30: whenever a playback ends, errors or fails to start while a clip is
\* waiting in the queue, the head of the queue is dequeued in that step: its
\* 100 ms timer is set.
C30_NextDequeuedWhenPlaybackIsOver ==
  [][(op' \in {"audio.onended", "audio.onerror", "audio.playRejected"} /\ queue # <<>>) =>
       /\ Len(playTimers') > Len(playTimers)
       /\ \E i \in DOMAIN playTimers' : playTimers'[i].clip = Head(queue)]_vars

(* ---- C28 ---- *)
\* the positions in the calls o of the failure feedback of handleScan's catch block
FailureFeedbackAt(o) ==
  {i \in DOMAIN o : \/ o[i][1] = "haptic.vibrate"
                    \/ o[i][1] = "audio.speak" /\ o[i][2] \in {ScanFailedText, PhotoFailedText}}

\* the device threw in a vibrate() among the calls o
VibrationThrew(o) ==
  \E i \in DOMAIN o : o[i][1] = "navigator.vibrate" /\ o[i][2] = "throws"

\* C28: a device error stays inside its channel. When the Vibration API throws
\* during the feedback of a successful scan, or when the clip of a result later
\* fails to load or to start, the orchestrator's error is left as it was, no
\* failure feedback is issued, and the scan still ends with isAnalyzing false.
C28_DeviceErrorsStayInChannel ==
  [][/\ (op' = "analysisSucceeds" /\ VibrationThrew(out')) =>
          (error' = error /\ ~isAnalyzing' /\ FailureFeedbackAt(out') = {})
     /\ op' \in {"audio.onerror", "audio.playRejected"} =>
          /\ error' = error /\ isAnalyzing' = isAnalyzing /\ scans' = scans
          /\ FailureFeedbackAt(out') = {}]_vars

\* the device threw in the danger vibration of a successful scan, which ended
\* without an error
C28_VibrationThrewOnSuccess ==
  op = "analysisSucceeds" /\ VibrationThrew(out) /\ ~isAnalyzing /\ error = "none"

(* ---- C31 ---- *)
\* C31: every clip that is being played, or is about to play, has the stored
\* (clamped) volume as its audio.volume, whether it was started from the queue
\* or as a priority clip, before or after the last setVolume.
C31_PlaybackUsesStoredVolume ==
  \A e \in audios : e.volume = volume

(* ---- C32 ---- *)
\* the names of the steps in which a command reaches App
VoiceOps == {"voice:" \o c : c \in VoiceCommandNames}

\* C32: stop() leaves the listener disabled and not listening with an empty
\* transcript; while the listener stays disabled the end of the session sets
\* no restart timer, none is pending, and recognition.start() is called by
\* nothing but a new start.
C32_StoppedStaysStopped ==
  [][/\ (op' = "voice.toggle" /\ voiceIsEnabled) =>
          (~voiceIsEnabled' /\ ~isListening' /\ transcript' = <<>>)
     /\ (op' = "recognition.onend" /\ ~voiceIsEnabled) =>
          (restartTimers' = 0 /\ session' = "idle" /\ ~isListening' /\ ~voiceIsEnabled')
     /\ (~voiceIsEnabled /\ Has(out', "recognition.start")) => op' = "voice.toggle"]_vars

\* the session has ended after a stop() and nothing will restart it
C32_SessionEndedAfterStop ==
  /\ op = "recognition.onend" /\ ~voiceIsEnabled /\ voiceError = "null"
  /\ recognitionRef # <<>> /\ session = "idle" /\ restartTimers = 0

(* ---- C38 ---- *)
\* C38: after stop() no command is dispatched to App: the step that follows a
\* stop() is never the handling of a voice command.
C38_NoCommandAfterStop ==
  [][(op = "voice.toggle" /\ ~voiceIsEnabled) => op' \notin VoiceOps]_vars

(* ---- C33 ---- *)
\* the steps that trigger a scan: the scan button, the interval callback and
\* the voice commands 'scan' and 'start'
ScanTriggerOps ==
  {"handleScan", "startContinuousScanning", "timerTick", "voice:scan", "voice:start"}

\* C33: when getUserMedia fails the camera is left inactive with hasPermission
\* false and its error is in App's error slot; getUserMedia is requested again
\* only by App's mount timer or by the Enable Camera button, never as a
\* consequence of the failure; while the camera is not active no scan trigger
\* starts a scan.
C33_FailedStartIsSurfacedNotRetried ==
  [][/\ (op' = "startCameraResolves" /\ ~cameraIsActive') =>
          /\ cameraHasPermission' = "false"
          /\ cameraError' # "none" /\ error' = cameraError'
          /\ cameraStarts' = cameraStarts - 1
     /\ cameraStarts' > cameraStarts => op' \in {"autoStartCamera", "enableCamera"}
     /\ (op' \in ScanTriggerOps /\ ~CameraRefActive) => UNCHANGED <<scans, isAnalyzing>>]_vars

\* a scan was triggered after the camera failed to start
C33_TriggerAfterFailedStart ==
  /\ op \in ScanTriggerOps /\ ~cameraIsActive /\ cameraHasPermission = "false"
  /\ error = "CameraError" /\ cameraStarts = 0 /\ scans = EmptyBag /\ ~isAnalyzing

(* ---- C37 ---- *)
\* C37 as stated: a scan trigger that comes while no scan is being analysed and
\* the camera is not active changes neither isAnalyzing, the error, the
\* detections nor the last description, accepts no scan, and makes no call at
\* all: no capture, no analysis request, no vibration, no audio.
C37_InactiveTriggerIsSilent ==
  [][(op' \in ScanTriggerOps /\ ~isAnalyzing /\ ~CameraRefActive) =>
       /\ UNCHANGED <<isAnalyzing, scans, error, detections, lastDescription>>
       /\ out' = <<>>]_vars

\* C37: such a trigger changes neither isAnalyzing, the error, the detections
\* nor the last description, accepts no scan and calls neither capture, the
\* analysis nor the audio channel; the only vibration is the tap with which a
\* voice command is acknowledged before handleScan is called.
C37_InactiveTriggerStartsNothing ==
  [][(op' \in ScanTriggerOps /\ ~isAnalyzing /\ ~CameraRefActive) =>
       /\ UNCHANGED <<isAnalyzing, scans, error, detections, lastDescription>>
       /\ IF op' \in {"voice:scan", "voice:start"}
          THEN \A i \in DOMAIN out' :
                 out'[i][1] = "navigator.vibrate" /\ out'[i][2] \in {"cancel", "tap", "throws"}
          ELSE out' = <<>>]_vars

\* voice 'scan' with the camera not active: the tap was given to the device,
\* no scan was accepted
C37_VoiceScanTapsOnly ==
  /\ op = "voice:scan" /\ ~CameraRefActive /\ ~isAnalyzing /\ scans = EmptyBag
  /\ \E i \in DOMAIN out : out[i] = <<"navigator.vibrate", "tap">>

C35_PreferencePersisted ==
  [][/\ savedPreference' # "null" => hapticIsEnabled' = (savedPreference' = "true")
     /\ op' = "haptic.toggle" => hapticIsEnabled' = ~hapticIsEnabled
     /\ op' = "newSession" =>
          /\ savedPreference' = savedPreference
          /\ hapticIsEnabled' = (savedPreference \in {"null", "true"})]_vars

\* a new session has started disabled, because 'false' is what is stored
C35_NewSessionDisabled ==
  op = "newSession" /\ savedPreference = "false" /\ ~hapticIsEnabled /\ hapticIsSupported

(* ---- C36 ---- *)
\* C36: a finalized transcript that is exactly an alias of a command resolves
\* to that command: when onresult is given one final result whose text is the
\* alias a of command c, the command it stores and dispatches is c.
C36_AliasResolvesToItsCommand ==
  [][\A k \in DOMAIN VOICE_COMMANDS : \A j \in DOMAIN VOICE_COMMANDS[k].aliases :
       (/\ resultCount' = resultCount + 1
        /\ heard' = <<[transcript |-> VOICE_COMMANDS[k].aliases[j], isFinal |-> TRUE]>>) =>
         (/\ lastCommand' # <<>>
          /\ lastCommand'[1].command = VOICE_COMMANDS[k].command
          /\ op' = "voice:" \o VOICE_COMMANDS[k].command)]_vars

(* ---- C39 ---- *)
\* C39: the hook holds at most one live stream (the one in its stream state:
\* the cleanup of the effect on [stream] stops a stream that is replaced), and
\* isActive is true exactly when it holds one.
C39_ActiveIffStreamHeld ==
  Len(stream) <= 1 /\ (cameraIsActive <=> stream # <<>>)

\* C40: in the demo gateway, successfulScans + failedScans <= totalScans and
\* panicEvents <= successfulScans in every state, and once every request has
\* completed each one is counted as exactly one of success or failure
C40_EachRequestCountedOnce ==
  /\ successfulScans + failedScans <= totalScans
  /\ panicEvents <= successfulScans
  /\ (requests = EmptyBag => totalScans = successfulScans + failedScans)

====
